---- MODULE Spec2Model ----
(***************************************************************************)
(* The bar-by-bar simulation loops of the repository:                      *)
(*   - backtest_strategy            (src/10.py, lines 64-170)              *)
(*   - BacktestEngine._run_backtest_for_params (src/backtester.py 240-313) *)
(* and the signal generators that run before them (src/10.py 37-62,        *)
(* src/backtester.py 111-171).                                             *)
(* One behaviour is one run of one of the two loops over one bar series,   *)
(* or one run of one of the signal generators over one frame.              *)
(* The parameter sweep and the metrics of src/backtester.py and src/10.py, *)
(* the components of src/trading_bot and src/data_downloader.py have       *)
(* specifications of their own, further down.                              *)
(* prog says which loop runs; the series is read one row per step, the     *)
(* row being drawn from a bounded set of rows with increasing timestamps.  *)
(*                                                                         *)
(* Units.  Prices are whole paise (1/100 rupee), money is paise, so that   *)
(* slippage (0.05) and commission (0.0001 of the traded value) are exact   *)
(* integers for the prices used here (multiples of 100 rupees).  Floating  *)
(* point rounding of the source is not modelled.  Percentages are kept as  *)
(* whole percents and applied by cross-multiplication.                     *)
(***************************************************************************)
EXTENDS Integers, Sequences, FiniteSets, TLC

VARIABLES prog, pc, i, row,
          position, entry_price, entry_index, entry_time, last_exit_index,
          trades_taken, daily_pnl, trade_log, equity, quantity,
          risk_params, df, params, result,
          self, call, pool, locals

(* prog            which loop runs: "backtest_strategy" or "BacktestEngine"
   pc              "loop" while rows are read, "done" after the loop
   i               index of the next row the loop reads (10.py:94, backtester.py:262)
   row             the row read last (10.py:95, backtester.py:263)
   position        0 flat, 1 long, -1 short (10.py:84, backtester.py:256)
   entry_price     10.py:85 (None when flat), backtester.py:257 (0.0 at the start)
   entry_index     10.py:86
   entry_time      backtester.py:258
   last_exit_index 10.py:87
   trades_taken    10.py:88, day -> exits counted on that day
   daily_pnl       10.py:91, day -> realized PnL of that day
   trade_log       10.py:89, backtester.py:259
   equity          10.py:90, backtester.py:255
   quantity        10.py:92
   risk_params     backtester.py:32-44, the two enable flags
   df              the frame of the signal generators (10.py:37-62,
                   backtester.py:120-171), as a record of columns
   params          backtester.py:12-26, the strategy parameters read by
                   CrossoverStrategy
   result          what the run returned (10.py:165, 170; backtester.py:252,
                   313, 322), None while it runs
   self            the fields of the object a component run works on
                   (trading_bot/bot/risk_manager.py 17-18,
                   trading_bot/bot/position_manager.py 32,
                   trading_bot/backtest/engine.py 28-29), None elsewhere
   call            the calls made so far on that object, or by that function
                   on its broker, in order: the name and the arguments of
                   each; for a sweep, the runs in the order in which they ended
   pool            the worker runs of a parameter sweep (backtester.py 336-345,
                   10.py 179-180): per parameter set, the private state of the
                   run that handles it, None elsewhere
   locals          the local variables of a function other than the two bar
                   loops while it runs (trading_bot/backtest/engine.py 52-70),
                   None elsewhere
   For the TradingBot and for the EMA-cross ATR-stop strategy, self, pool,
   call and locals are described where these are modelled.
   The variables of the loop that is not running keep their initial values. *)
vars == <<prog, pc, i, row, position, entry_price, entry_index, entry_time,
          last_exit_index, trades_taken, daily_pnl, trade_log, equity,
          quantity, risk_params, df, params, result, self, call, pool,
          locals>>

----------------------------------------------------------------------------
(* Encodings *)

\* Python's None and a present value.
None == <<>>

Some(x) == <<x>>

Val(o) == o[1]

\* rupees -> paise
Paise(r) == r * 100

\* A function extended (or overwritten) at one key: d[k] = v in Python.
Put(f, k, v) == [x \in (DOMAIN f) \cup {k} |-> IF x = k THEN v ELSE f[x]]

\* Exact fractions <<numerator, denominator>>
RECURSIVE Gcd(_, _)
Gcd(a, b) == IF b = 0 THEN a ELSE Gcd(b, a % b)

Abs(x) == IF x < 0 THEN -x ELSE x

\* a fraction <<numerator, denominator>> in lowest terms, denominator > 0
Lowest(q) ==
  LET g == Gcd(Abs(q[1]), Abs(q[2]))
      sgn == IF q[2] < 0 THEN -1 ELSE 1
  IN <<sgn * (q[1] \div g), sgn * (q[2] \div g)>>

AddQ(p, q) ==
  LET a == Lowest(p)
      b == Lowest(q)
  IN Lowest(<<a[1] * b[2] + b[1] * a[2], a[2] * b[2]>>)

----------------------------------------------------------------------------
(* Bounds of the model *)

\* Number of rows of the bar series read by backtest_strategy (indices 0 .. MaxBars-1).
MaxBars == 4

\* Number of rows of the bar series read by BacktestEngine.
MaxBarsE == 3

\* Number of rows of the one-minute series of the busy-day runs.
MaxDayBars == 33

\* Number of rows of the series with bad ticks.
MaxFaultBars == 6

\* Longest frame of the signal generators.
MaxLen == 4

\* Number of calls made on one component object.
MaxCalls == 3

\* Largest max_concurrent_positions and largest position count passed in.
MaxPositions == 2

\* Longest span, in days, from start_date to end_date of the chunked fetch.
MaxSpan == 185

\* Latest day number of the dates download_nifty_data is run on.
MaxDate == 3

\* Largest number of closed trades of a ledger handed to the metrics.
MaxTrades == 4

\* Largest number of parameter sets of a sweep.
MaxSets == 2

\* Largest number of ticks delivered to a TradingBot.
MaxTicks == 6

\* Largest number of calls a TradingBot makes on its broker.
MaxOrders == 5

\* Largest number of bars the EMA-cross ATR-stop strategy is run on.
MaxTrailBars == 3

\* Values of the MACD and MACD_sig columns calculate_indicators is run on.
Levels == {1, 2}

\* Values of the Close column CrossoverStrategy is run on.
CloseLevels == {1, 2, 3}

\* Calendar days of the series.
Days == {0, 1}

\* Times of day, in minutes after midnight: 09:14, 09:15, 15:29, 15:30, 15:31.
Times == {554, 555, 929, 930, 931}

\* (Close, High, Low) of the rows, in rupees: a quiet bar at 50000, a bar at
\* 50000 that reaches 52000 and 48000, a quiet bar at 48000, and a quiet bar
\* priced above the whole capital.  Open is read by neither loop.
Shapes == {<<50000, 50000, 50000>>, <<50000, 52000, 48000>>,
           <<48000, 48000, 48000>>, <<100500, 100500, 100500>>}

----------------------------------------------------------------------------
(* Constants of backtest_strategy, src/10.py lines 73-82 *)

cooldown == 1

max_trades_day == 15

\* commission = 0.0001: one part in CommissionDen of the traded value
CommissionDen == 10000

\* slippage = 0.05 rupees, in paise
slippage == 5

\* stop_loss = 0.02, in percent
stop_loss == 2

\* profit_target = 0.04, in percent
profit_target == 4

capital == Paise(100000)

lot_size == 1

\* max_daily_loss = 0.02, in percent
max_daily_loss == 2

\* 09:15, 15:30 and 15:29 as minutes after midnight (lines 100 and 142)
SessionStart == 555

SessionEnd == 930

EodCutoff == 929

----------------------------------------------------------------------------
(* Constants of src/backtester.py, RISK_PARAMETERS and TRADE_PARAMETERS *)

\* 'stop_loss_pct': 0.02, in percent
stop_loss_pct == 2

\* 'take_profit_pct': 0.04, in percent
take_profit_pct == 4

initial_capital == Paise(100000)

----------------------------------------------------------------------------
(* The bar series *)

Dates == [day : Days, time : Times]

DateBefore(a, b) == a.day < b.day \/ (a.day = b.day /\ a.time < b.time)

\* Rows of the frame after generate_signals (src/10.py 53-59): longCond needs
\* macd_cross_up, shortCond needs macd_cross_down, which exclude each other.
RowsT == {[Date |-> d, Close |-> Paise(s[1]), High |-> Paise(s[2]), Low |-> Paise(s[3]),
           longCond |-> (g = "long"), shortCond |-> (g = "short")] :
            d \in Dates, s \in Shapes, g \in {"none", "long", "short"}}

----------------------------------------------------------------------------
(* backtest_strategy, src/10.py: the pieces of the loop body *)

\* (mutant of InSession: the end of the session is not checked)
InSessionNoEnd(t) == SessionStart <= t

\* line 100: 09:15:00 <= time <= 15:30:00
InSession(t) == SessionStart <= t /\ t <= SessionEnd

\* lines 97-99: a day seen for the first time gets a zero counter
Register(counter, day) == IF day \in DOMAIN counter THEN counter ELSE Put(counter, day, 0)

\* (mutant of EntryGate: the branch is taken whatever the position)
EntryGateAnyPosition(pos, idx, lastExit, taken) ==
  (idx - lastExit) >= cooldown /\ taken < max_trades_day

\* (mutant of EntryGate: the day's count is compared with <=)
EntryGateOffByOne(pos, idx, lastExit, taken) ==
  pos = 0 /\ (idx - lastExit) >= cooldown /\ taken <= max_trades_day

\* line 102: the condition of the entry branch
EntryGate(pos, idx, lastExit, taken) ==
  pos = 0 /\ (idx - lastExit) >= cooldown /\ taken < max_trades_day

\* (mutant of DailyLossHit: the sign of the cap is lost)
DailyLossHitSignSlip(pnl) == pnl >= (max_daily_loss * capital) \div 100

\* line 103: daily_pnl[day] <= -max_daily_loss * capital
DailyLossHit(pnl) == pnl <= -((max_daily_loss * capital) \div 100)

\* lines 106-107: max_lots = int(capital // (price * lot_size)); quantity = max_lots * lot_size
\* (capital is in paise here, as price is)
Quantity(price) == (capital \div (price * lot_size)) * lot_size

\* (mutant of TooSmall: the quantity is compared with zero)
TooSmallNegative(q) == q < 0

\* line 108: if quantity < lot_size: continue
TooSmall(q) == q < lot_size

\* line 131
Direction(pos) == IF pos = 1 THEN 1 ELSE -1

\* (mutant of TriggerExit: the 15:29 bar is not tested)
TriggerExitNoCutoff(pos, entry, r) ==
  \/ /\ Direction(pos) = 1
     /\ \/ r.Low * 100 <= entry * (100 - stop_loss)
        \/ r.High * 100 >= entry * (100 + profit_target)
  \/ /\ Direction(pos) # 1
     /\ \/ r.High * 100 >= entry * (100 + stop_loss)
        \/ r.Low * 100 <= entry * (100 - profit_target)

\* lines 135-143: stop loss, profit target or the 15:29 bar
TriggerExit(pos, entry, r) ==
  \/ /\ Direction(pos) = 1
     /\ \/ r.Low * 100 <= entry * (100 - stop_loss)
        \/ r.High * 100 >= entry * (100 + profit_target)
  \/ /\ Direction(pos) # 1
     /\ \/ r.High * 100 >= entry * (100 + stop_loss)
        \/ r.Low * 100 <= entry * (100 - profit_target)
  \/ r.Date.time = EodCutoff

\* (mutant of ExitPrice: the slippage is applied in the position's favour)
ExitPriceFavourable(r, direction) == r.Close + slippage * direction

\* line 146: exit_price = row['Close'] - slippage * direction
ExitPrice(r, direction) == r.Close - slippage * direction

\* line 147: abs_pnl = (exit_price - entry_price) * quantity * direction
\*                     - commission * entry_price * quantity
AbsPnl(exitPrice, entry, q, direction) ==
  (exitPrice - entry) * q * direction - (entry * q) \div CommissionDen

\* (mutant of NewLastExit: the entry index is stored instead of the exit index)
NewLastExitEntryIndex(idx, entryIdx) == entryIdx

\* line 159: last_exit_index = i
NewLastExit(idx, entryIdx) == idx

\* lines 114-117 and 122-125: the record appended at an entry
EntryRecord(r, side, q) ==
  [EntryTime |-> r.Date, ExitTime |-> None, Position |-> side,
   EntryPrice |-> r.Close, ExitPrice |-> None, PnL |-> None, AbsPnL |-> None,
   Quantity |-> Some(q),
   Reason |-> Some(IF side = "Long" THEN "Long Entry" ELSE "Short Entry"),
   ExitReason |-> None, bars_in_trade |-> None]

\* lines 148-152: trade_log[-1].update(...); PnL = abs_pnl / capital * 100 is kept
\* as the fraction <<abs_pnl * 100, capital>>
ExitUpdate(rec, r, exitPrice, absPnl, bars) ==
  [rec EXCEPT !.ExitTime = Some(r.Date), !.ExitPrice = Some(exitPrice),
              !.PnL = Some(<<absPnl * 100, capital>>), !.AbsPnL = Some(absPnl),
              !.bars_in_trade = Some(bars)]

\* lines 106-107: int(capital // (price * lot_size)) raises for a price of
\* 0.0 (the quotient is inf or nan: OverflowError or ValueError)
QuantityRaises(price) == price = 0

\* line 162: the PnL column of the closed records
PnlArr(log) ==
  LET closed == SelectSeq(log, LAMBDA t : t.PnL # None)
  IN [k \in 1 .. Len(closed) |-> Val(closed[k].PnL)]

\* line 163, as a fraction
TotalReturn(eq) ==
  IF eq # capital THEN Lowest(<<eq - capital, capital>>) ELSE <<0, 1>>

\* (mutant of WinRate: the mean of an empty column, 0/0, is not guarded)
WinRateNoGuard(arr) ==
  IF arr # <<>>
  THEN Lowest(<<Cardinality({k \in DOMAIN arr : arr[k][1] > 0}), Len(arr)>>)
  ELSE <<0, 0>>

\* line 164, as a fraction
WinRate(arr) ==
  IF arr # <<>>
  THEN Lowest(<<Cardinality({k \in DOMAIN arr : arr[k][1] > 0}), Len(arr)>>)
  ELSE <<0, 1>>

RECURSIVE SumNum(_)
SumNum(arr) ==
  IF arr = <<>> THEN 0 ELSE arr[Len(arr)][1] + SumNum(SubSeq(arr, 1, Len(arr) - 1))

Sgn(x) == IF x > 0 THEN 1 ELSE IF x < 0 THEN -1 ELSE 0

\* line 165, by its sign: mean / std * sqrt(252 * 390) has the sign of the sum
\* of the PnL column, whose entries share the denominator capital; the
\* standard deviation is 0 when all entries are equal
SharpeSign(arr) ==
  IF Len(arr) > 1 /\ (\E j, k \in DOMAIN arr : arr[j] # arr[k])
  THEN Sgn(SumNum(arr))
  ELSE 0

\* lines 161-166: what the function returns after the loop (without params)
ReturnT(eq, log) ==
  [total_return |-> TotalReturn(eq), win_rate |-> WinRate(PnlArr(log)),
   sharpe |-> SharpeSign(PnlArr(log)), trade_log |-> log]

\* lines 69 and 168-170: return params, 0, 0, 0, []
ErrorReturnT == [total_return |-> <<0, 1>>, win_rate |-> <<0, 1>>, sharpe |-> 0,
                 trade_log |-> <<>>]

\* line 70: the try block encloses the loop, so the first exception of an
\* iteration ends the run.  The one operation of an iteration that can raise
\* on a frame of numbers is the sizing, reached when the entry gate is open
\* and the daily loss cap is not hit.
RaisesT(r) ==
  LET day == r.Date.day
  IN /\ InSession(r.Date.time)
     /\ EntryGate(position, i, last_exit_index, Register(trades_taken, day)[day])
     /\ ~DailyLossHit(Register(daily_pnl, day)[day])
     /\ QuantityRaises(r.Close)

\* what the bar leaves as it is
FrameT == UNCHANGED <<self, call, pool, locals, prog, entry_time, risk_params, df, params>>

\* `continue` (lines 101, 104, 109, 126) or a fall through without an exit
NoTradeT == UNCHANGED <<position, entry_price, entry_index, last_exit_index,
                        trade_log, equity>>

\* lines 110-125
OpenT(r, q) ==
  /\ quantity' = q
  /\ IF r.longCond \/ r.shortCond
     THEN /\ position' = IF r.longCond THEN 1 ELSE -1
          /\ entry_price' = Some(r.Close)
          /\ entry_index' = Some(i)
          /\ trade_log' = Append(trade_log,
                                 EntryRecord(r, IF r.longCond THEN "Long" ELSE "Short", q))
          /\ UNCHANGED <<last_exit_index, equity>>
     ELSE NoTradeT

\* lines 145-159
CloseT(r, taken, pnl) ==
  LET day == r.Date.day
      direction == Direction(position)
      exit_price == ExitPrice(r, direction)
      abs_pnl == AbsPnl(exit_price, Val(entry_price), quantity, direction)
      n == Len(trade_log)
  IN /\ trade_log' = [trade_log EXCEPT
                        ![n] = ExitUpdate(trade_log[n], r, exit_price, abs_pnl,
                                          i - Val(entry_index))]
     /\ equity' = equity + abs_pnl
     /\ daily_pnl' = [pnl EXCEPT ![day] = @ + abs_pnl]
     /\ trades_taken' = [taken EXCEPT ![day] = @ + 1]
     /\ position' = 0
     /\ entry_price' = None
     /\ entry_index' = None
     /\ last_exit_index' = NewLastExit(i, Val(entry_index))
     /\ UNCHANGED quantity

\* lines 94-159: one iteration of the loop, on row r = df.iloc[i]
BarT(r) ==
  /\ prog = "backtest_strategy" /\ pc = "loop"
  /\ DateBefore(row.Date, r.Date)
  /\ row' = r
  /\ i' = i + 1
  /\ FrameT
  /\ LET day == r.Date.day
         taken == Register(trades_taken, day)
         pnl == Register(daily_pnl, day)
     IN IF ~InSession(r.Date.time)
        THEN /\ trades_taken' = taken /\ daily_pnl' = pnl
             /\ NoTradeT /\ UNCHANGED quantity
        ELSE IF EntryGate(position, i, last_exit_index, taken[day])
        THEN /\ trades_taken' = taken /\ daily_pnl' = pnl
             /\ IF DailyLossHit(pnl[day]) \/ QuantityRaises(r.Close)
                THEN NoTradeT /\ UNCHANGED quantity
                ELSE IF TooSmall(Quantity(r.Close))
                THEN NoTradeT /\ quantity' = Quantity(r.Close)
                ELSE OpenT(r, Quantity(r.Close))
        ELSE IF position # 0 /\ entry_price # None /\ TriggerExit(position, Val(entry_price), r)
        THEN CloseT(r, taken, pnl)
        ELSE /\ trades_taken' = taken /\ daily_pnl' = pnl
             /\ NoTradeT /\ UNCHANGED quantity
  /\ IF RaisesT(r)
     THEN pc' = "done" /\ result' = Some(ErrorReturnT)
     ELSE UNCHANGED <<pc, result>>

\* line 94: range(1, len(df)) is exhausted; the series ends at any length >= 1.
\* Lines 161-165 return the aggregates and the ledger.
FinishT ==
  /\ prog = "backtest_strategy" /\ pc = "loop"
  /\ pc' = "done"
  /\ result' = Some(ReturnT(equity, trade_log))
  /\ UNCHANGED <<self, call, pool, locals, prog, i, row, position, entry_price, entry_index, entry_time,
                 last_exit_index, trades_taken, daily_pnl, trade_log, equity,
                 quantity, risk_params, df, params>>

\* lines 84-92, with df.iloc[0] as the row before the first iteration (i = 1)
InitT ==
  /\ prog = "backtest_strategy" /\ pc = "loop" /\ i = 1
  /\ row \in RowsT
  /\ position = 0 /\ entry_price = None /\ entry_index = None
  /\ last_exit_index = -cooldown
  /\ trades_taken = <<>> /\ daily_pnl = <<>> /\ trade_log = <<>>
  /\ equity = capital /\ quantity = 0
  /\ entry_time = None /\ risk_params = None
  /\ df = None /\ params = None /\ result = None
  /\ self = None /\ call = None /\ pool = None /\ locals = None

StepT == i < MaxBars /\ \E r \in RowsT : BarT(r)

----------------------------------------------------------------------------
(* backtest_strategy on a busy day: a one-minute series from 09:15 on which
   every row carries a long signal, stays at one close and reaches both the
   stop and the target of a position entered at that close.  A day may end
   after any row; the next row is then the 09:15 row of the next day. *)

RowsDay == {[Date |-> [day |-> d, time |-> t], Close |-> Paise(50000),
             High |-> Paise(52000), Low |-> Paise(48000),
             longCond |-> TRUE, shortCond |-> FALSE] :
              d \in Days, t \in SessionStart .. (SessionStart + MaxDayBars)}

NextRowOfDay(a, b) ==
  \/ b.day = a.day /\ b.time = a.time + 1
  \/ b.day = a.day + 1 /\ b.time = SessionStart

InitDay ==
  /\ InitT
  /\ row \in RowsDay /\ row.Date = [day |-> 0, time |-> SessionStart]

StepDay ==
  i < MaxDayBars /\ \E r \in RowsDay : NextRowOfDay(row.Date, r.Date) /\ BarT(r)

NextDay == StepDay \/ FinishT

SpecDay == InitDay /\ [][NextDay]_vars

----------------------------------------------------------------------------
(* backtest_strategy on a frame with bad ticks: a one-minute series of day 0
   from 09:15.  A row is a quiet bar at 50000 without or with a long signal,
   a bar at 50000 that reaches 52000 and 48000, or a bar whose Close, High
   and Low are 0.0 (Close below EMA200, so no long signal). *)

\* (Close, High, Low, longCond) of the rows, prices in rupees
FaultBars == {<<50000, 50000, 50000, FALSE>>, <<50000, 50000, 50000, TRUE>>,
              <<50000, 52000, 48000, FALSE>>, <<0, 0, 0, FALSE>>}

RowsFault ==
  {[Date |-> [day |-> 0, time |-> t], Close |-> Paise(b[1]), High |-> Paise(b[2]),
    Low |-> Paise(b[3]), longCond |-> b[4], shortCond |-> FALSE] :
     t \in SessionStart .. (SessionStart + MaxFaultBars), b \in FaultBars}

InitFault ==
  /\ InitT
  /\ row \in RowsFault /\ row.Date = [day |-> 0, time |-> SessionStart]

StepFault ==
  i < MaxFaultBars /\ \E r \in RowsFault : NextRowOfDay(row.Date, r.Date) /\ BarT(r)

NextFault == StepFault \/ FinishT

SpecFault == InitFault /\ [][NextFault]_vars

----------------------------------------------------------------------------
(* BacktestEngine._run_backtest_for_params, src/backtester.py *)

\* lines 148-165 of CrossoverStrategy.generate_signals: the four signal columns
\* from the crossover columns and the trend conditions
Signals(crossover_up, crossover_down, bullish_trend, bearish_trend) ==
  [long_entry_signal |-> crossover_up /\ bullish_trend,
   short_entry_signal |-> crossover_down /\ bearish_trend,
   long_exit_signal |-> crossover_down,
   short_exit_signal |-> crossover_up]

\* crossover_up and crossover_down exclude each other (lines 144-146); with the
\* trend filter on, Close is above, below or on ma_trend; with it off both trend
\* conditions are True (lines 150-156)
SignalSets ==
  {Signals(x = "up", x = "down", t \in {"bull", "off"}, t \in {"bear", "off"}) :
     x \in {"none", "up", "down"}, t \in {"bull", "bear", "on", "off"}}

RowsE == {[Date |-> d, Close |-> Paise(s[1]), High |-> Paise(s[2]), Low |-> Paise(s[3]),
           long_entry_signal |-> g.long_entry_signal,
           short_entry_signal |-> g.short_entry_signal,
           long_exit_signal |-> g.long_exit_signal,
           short_exit_signal |-> g.short_exit_signal] :
            d \in Dates, s \in Shapes, g \in SignalSets}

\* the position of the loop before row 0
NoRow == [Date |-> [day |-> -1, time |-> 0]]

\* The engine reads a row's timestamp only to record it, so its series has a
\* row at every date: each row carries the earliest date after the previous one.
FollowsE(a, b) ==
  DateBefore(a, b) /\ \A d \in Dates : ~(DateBefore(a, d) /\ DateBefore(d, b))

\* (mutant of ExitDecision: the take profit is tested before the stop loss)
ExitDecisionTargetFirst(pos, entry, r, rp) ==
  IF pos = 1
  THEN IF rp.enable_take_profit /\ r.High * 100 >= entry * (100 + take_profit_pct)
       THEN Some(<<"Take Profit", r.High>>)
       ELSE IF rp.enable_stop_loss /\ r.Low * 100 <= entry * (100 - stop_loss_pct)
       THEN Some(<<"Stop Loss", r.Low>>)
       ELSE IF r.long_exit_signal
       THEN Some(<<"Exit Signal", r.Close>>)
       ELSE None
  ELSE IF pos = -1
  THEN IF rp.enable_take_profit /\ r.Low * 100 <= entry * (100 - take_profit_pct)
       THEN Some(<<"Take Profit", r.Low>>)
       ELSE IF rp.enable_stop_loss /\ r.High * 100 >= entry * (100 + stop_loss_pct)
       THEN Some(<<"Stop Loss", r.High>>)
       ELSE IF r.short_exit_signal
       THEN Some(<<"Exit Signal", r.Close>>)
       ELSE None
  ELSE None

\* (mutant of ExitDecision: each side tests the other side's exit signal)
ExitDecisionSwappedSignal(pos, entry, r, rp) ==
  IF pos = 1
  THEN IF rp.enable_stop_loss /\ r.Low * 100 <= entry * (100 - stop_loss_pct)
       THEN Some(<<"Stop Loss", r.Low>>)
       ELSE IF rp.enable_take_profit /\ r.High * 100 >= entry * (100 + take_profit_pct)
       THEN Some(<<"Take Profit", r.High>>)
       ELSE IF r.short_exit_signal
       THEN Some(<<"Exit Signal", r.Close>>)
       ELSE None
  ELSE IF pos = -1
  THEN IF rp.enable_stop_loss /\ r.High * 100 >= entry * (100 + stop_loss_pct)
       THEN Some(<<"Stop Loss", r.High>>)
       ELSE IF rp.enable_take_profit /\ r.Low * 100 <= entry * (100 - take_profit_pct)
       THEN Some(<<"Take Profit", r.Low>>)
       ELSE IF r.long_exit_signal
       THEN Some(<<"Exit Signal", r.Close>>)
       ELSE None
  ELSE None

\* lines 269-289: the exit that fires on row r, as <<reason, price>>, or None
ExitDecision(pos, entry, r, rp) ==
  IF pos = 1
  THEN IF rp.enable_stop_loss /\ r.Low * 100 <= entry * (100 - stop_loss_pct)
       THEN Some(<<"Stop Loss", r.Low>>)
       ELSE IF rp.enable_take_profit /\ r.High * 100 >= entry * (100 + take_profit_pct)
       THEN Some(<<"Take Profit", r.High>>)
       ELSE IF r.long_exit_signal
       THEN Some(<<"Exit Signal", r.Close>>)
       ELSE None
  ELSE IF pos = -1
  THEN IF rp.enable_stop_loss /\ r.High * 100 >= entry * (100 + stop_loss_pct)
       THEN Some(<<"Stop Loss", r.High>>)
       ELSE IF rp.enable_take_profit /\ r.Low * 100 <= entry * (100 - take_profit_pct)
       THEN Some(<<"Take Profit", r.Low>>)
       ELSE IF r.short_exit_signal
       THEN Some(<<"Exit Signal", r.Close>>)
       ELSE None
  ELSE None

\* line 292: pnl as the fraction <<numerator, entry_price>>
PnlFraction(pos, entry, exitPrice) ==
  IF pos = 1 THEN <<exitPrice - entry, entry>> ELSE <<entry - exitPrice, entry>>

\* (mutant of TradeRecord: the entry is stamped with the row of the exit)
TradeRecordSameBar(pos, entry, entryTime, r, reason, exitPrice) ==
  [EntryTime |-> r.Date, ExitTime |-> Some(r.Date),
   Position |-> IF pos = 1 THEN "Long" ELSE "Short",
   EntryPrice |-> entry, ExitPrice |-> Some(exitPrice),
   PnL |-> Some(PnlFraction(pos, entry, exitPrice)), AbsPnL |-> None,
   Quantity |-> None, Reason |-> None, ExitReason |-> Some(reason),
   bars_in_trade |-> None]

\* lines 293-298
TradeRecord(pos, entry, entryTime, r, reason, exitPrice) ==
  [EntryTime |-> entryTime, ExitTime |-> Some(r.Date),
   Position |-> IF pos = 1 THEN "Long" ELSE "Short",
   EntryPrice |-> entry, ExitPrice |-> Some(exitPrice),
   PnL |-> Some(PnlFraction(pos, entry, exitPrice)), AbsPnL |-> None,
   Quantity |-> None, Reason |-> None, ExitReason |-> Some(reason),
   bars_in_trade |-> None]

\* (mutant of AppendTrade: the record is put at the head of the ledger)
AppendTradeAtHead(log, rec) == <<rec>> \o log

\* line 293: trade_log.append({...})
AppendTrade(log, rec) == Append(log, rec)

\* line 255 is the only assignment to equity in the function
EquityAfterExit(eq, pos, entry, exitPrice) == eq

\* lines 262-311: one iteration of the loop, on row r = signals_df.iloc[i]
BarE(r) ==
  /\ prog = "BacktestEngine" /\ pc = "loop"
  /\ FollowsE(row.Date, r.Date)
  /\ row' = r
  /\ i' = i + 1
  /\ UNCHANGED <<self, call, pool, locals, prog, pc, entry_index, last_exit_index, trades_taken, daily_pnl,
                 quantity, risk_params, df, params, result>>
  /\ LET exit == IF position # 0
                 THEN ExitDecision(position, Val(entry_price), r, risk_params)
                 ELSE None
         fired == exit # None
         flat == position = 0 \/ fired
         log == IF fired
                THEN AppendTrade(trade_log,
                                 TradeRecord(position, Val(entry_price), Val(entry_time), r,
                                             Val(exit)[1], Val(exit)[2]))
                ELSE trade_log
     IN /\ trade_log' = log
        /\ equity' = IF fired
                     THEN EquityAfterExit(equity, position, Val(entry_price), Val(exit)[2])
                     ELSE equity
        /\ IF flat /\ r.long_entry_signal
           THEN position' = 1 /\ entry_price' = Some(r.Close) /\ entry_time' = Some(r.Date)
           ELSE IF flat /\ r.short_entry_signal
           THEN position' = -1 /\ entry_price' = Some(r.Close) /\ entry_time' = Some(r.Date)
           ELSE /\ position' = IF fired THEN 0 ELSE position
                /\ entry_time' = IF fired THEN None ELSE entry_time
                /\ UNCHANGED entry_price

\* line 313: return (strategy_params, trade_log)
ReturnE(log) == [trade_log |-> log]

\* line 262: range(len(signals_df)) is exhausted; line 313 returns the log
FinishE ==
  /\ prog = "BacktestEngine" /\ pc = "loop"
  /\ pc' = "done"
  /\ result' = Some(ReturnE(trade_log))
  /\ UNCHANGED <<self, call, pool, locals, prog, i, row, position, entry_price, entry_index, entry_time,
                 last_exit_index, trades_taken, daily_pnl, trade_log, equity,
                 quantity, risk_params, df, params>>

\* lines 254-259; the risk parameters are configuration (RISK_PARAMETERS).
\* The rows the loop reads before the first crossover carry no signal and
\* leave this state as it is; the series modelled here starts after them.
InitE ==
  /\ prog = "BacktestEngine" /\ pc = "loop" /\ i = 0
  /\ row = NoRow
  /\ risk_params \in [enable_stop_loss : BOOLEAN, enable_take_profit : BOOLEAN]
  /\ equity = initial_capital
  /\ position = 0 /\ entry_price = Some(0) /\ entry_time = None
  /\ trade_log = <<>>
  /\ entry_index = None /\ last_exit_index = -cooldown
  /\ trades_taken = <<>> /\ daily_pnl = <<>> /\ quantity = 0
  /\ df = None /\ params = None /\ result = None
  /\ self = None /\ call = None /\ pool = None /\ locals = None

StepE == i < MaxBarsE /\ \E r \in RowsE : BarE(r)

----------------------------------------------------------------------------
(* The signal generators: calculate_indicators and generate_signals of
   src/10.py (lines 37-62) and CrossoverStrategy.generate_signals of
   src/backtester.py (lines 111-171).  Both run before the loop of their
   program; pc is "indicators", then "signals", then "ready".  A column is a
   sequence; the row of index i in the source is element i + 1 here.  A
   number of a column is Some(fraction), NaN is None. *)

NaN == None

Num(n) == Some(<<n, 1>>)

\* comparisons of pandas: False when a side is NaN
GtQ(a, b) == a # NaN /\ b # NaN /\ Val(a)[1] * Val(b)[2] > Val(b)[1] * Val(a)[2]

LtQ(a, b) == GtQ(b, a)

GeQ(a, b) == a # NaN /\ b # NaN /\ Val(a)[1] * Val(b)[2] >= Val(b)[1] * Val(a)[2]

LeQ(a, b) == GeQ(b, a)

\* Series.shift(1)
Shift(s) == [t \in 1 .. Len(s) |-> IF t = 1 THEN NaN ELSE s[t - 1]]

\* Series.shift(1).fillna(False) of a column of booleans (boolean again after
\* the fill, so that ~ on it is the logical not)
ShiftFillFalse(s) == [t \in 1 .. Len(s) |-> IF t = 1 THEN FALSE ELSE s[t - 1]]

\* the loop variables, which the signal generators do not touch
LoopIdle ==
  /\ i = 0 /\ row = NoRow
  /\ position = 0 /\ entry_price = None /\ entry_index = None
  /\ last_exit_index = -cooldown
  /\ trades_taken = <<>> /\ daily_pnl = <<>> /\ trade_log = <<>>
  /\ equity = capital /\ quantity = 0
  /\ entry_time = None /\ risk_params = None

LoopUnchanged ==
  UNCHANGED <<self, call, pool, locals, prog, i, row, position, entry_price, entry_index, entry_time,
              last_exit_index, trades_taken, daily_pnl, trade_log, equity,
              quantity, risk_params>>

\* all sequences over S of length 1 .. n
SeqsUpTo(S, n) == UNION {[1 .. k -> S] : k \in 1 .. n}

(* src/10.py.  MACD and MACD_sig are drawn as columns of whole numbers; the
   columns bullish and bearish (Close above, below EMA200: lines 55-56) are
   drawn constant along the frame. *)

\* (mutant of MacdCrossUp: the previous bar is compared strictly)
MacdCrossUpStrict(macd, sig) ==
  [t \in 1 .. Len(macd) |->
     GtQ(macd[t], sig[t]) /\ LtQ(Shift(macd)[t], Shift(sig)[t])]

\* line 46
MacdCrossUp(macd, sig) ==
  [t \in 1 .. Len(macd) |->
     GtQ(macd[t], sig[t]) /\ LeQ(Shift(macd)[t], Shift(sig)[t])]

\* (mutant of MacdCrossDown: the previous bar is compared strictly)
MacdCrossDownStrict(macd, sig) ==
  [t \in 1 .. Len(macd) |->
     LtQ(macd[t], sig[t]) /\ GtQ(Shift(macd)[t], Shift(sig)[t])]

\* line 47
MacdCrossDown(macd, sig) ==
  [t \in 1 .. Len(macd) |->
     LtQ(macd[t], sig[t]) /\ GeQ(Shift(macd)[t], Shift(sig)[t])]

InitSignalsT ==
  /\ prog = "backtest_strategy" /\ pc = "indicators"
  /\ LoopIdle
  /\ params = None /\ result = None
  /\ self = None /\ call = None /\ pool = None /\ locals = None
  /\ \E n \in 1 .. MaxLen :
       \E macd, sig \in [1 .. n -> {Num(v) : v \in Levels}] :
         \E trend \in {<<TRUE, FALSE>>, <<FALSE, TRUE>>, <<FALSE, FALSE>>} :
           df = [MACD |-> macd, MACD_sig |-> sig,
                 bullish |-> [t \in 1 .. n |-> trend[1]],
                 bearish |-> [t \in 1 .. n |-> trend[2]]]

\* calculate_indicators, lines 46-47
CalculateIndicatorsT ==
  /\ prog = "backtest_strategy" /\ pc = "indicators"
  /\ pc' = "signals"
  /\ df' = [MACD |-> df.MACD, MACD_sig |-> df.MACD_sig,
            bullish |-> df.bullish, bearish |-> df.bearish,
            macd_cross_up |-> MacdCrossUp(df.MACD, df.MACD_sig),
            macd_cross_down |-> MacdCrossDown(df.MACD, df.MACD_sig)]
  /\ LoopUnchanged /\ UNCHANGED <<params, result>>

\* generate_signals, lines 57-58
GenerateSignalsT ==
  /\ prog = "backtest_strategy" /\ pc = "signals"
  /\ pc' = "ready"
  /\ df' = [MACD |-> df.MACD, MACD_sig |-> df.MACD_sig,
            bullish |-> df.bullish, bearish |-> df.bearish,
            macd_cross_up |-> df.macd_cross_up,
            macd_cross_down |-> df.macd_cross_down,
            longCond |-> [t \in 1 .. Len(df.MACD) |->
                            df.macd_cross_up[t] /\ df.bullish[t]],
            shortCond |-> [t \in 1 .. Len(df.MACD) |->
                             df.macd_cross_down[t] /\ df.bearish[t]]]
  /\ LoopUnchanged /\ UNCHANGED <<params, result>>

(* src/backtester.py.  The frame holds Close; the moving averages are
   computed from it as exact fractions. *)

\* line 113: ma_type.upper() == 'SMA', line 115: ... == 'EMA', else line 118 raises
ValidMaType(ma_type) == ma_type \in {"SMA", "EMA"}

\* Series.rolling(window=period).mean(): NaN until period values are there
Sma(c, period) ==
  [t \in 1 .. Len(c) |->
     IF t < period THEN NaN
     ELSE Some(Lowest(<<SumNum([k \in 1 .. period |-> <<c[t - period + k]>>]), period>>))]

\* Series.ewm(span=period, adjust=False).mean(): y[0] = x[0],
\* y[t] = (1 - a) * y[t-1] + a * x[t] with a = 2 / (period + 1)
RECURSIVE EmaAt(_, _, _)
EmaAt(c, period, t) ==
  IF t = 1 THEN <<c[1], 1>>
  ELSE LET y == EmaAt(c, period, t - 1)
       IN Lowest(<<(period - 1) * y[1] + 2 * c[t] * y[2], (period + 1) * y[2]>>)

Ema(c, period) == [t \in 1 .. Len(c) |-> Some(EmaAt(c, period, t))]

\* lines 111-116, for a valid ma_type
calculate_ma(series, period, ma_type) ==
  IF ma_type = "SMA" THEN Sma(series, period) ELSE Ema(series, period)

\* line 144
FastAboveSlow(ma_fast, ma_slow) ==
  [t \in 1 .. Len(ma_fast) |-> GtQ(ma_fast[t], ma_slow[t])]

\* line 145
CrossoverUp(above) ==
  [t \in 1 .. Len(above) |-> above[t] /\ ~ShiftFillFalse(above)[t]]

\* line 146
CrossoverDown(above) ==
  [t \in 1 .. Len(above) |-> ~above[t] /\ ShiftFillFalse(above)[t]]

\* the strategy parameters of the runs (STRATEGY_PARAMETERS, lines 12-26, and
\* the optimization grid), with periods small enough for the frames drawn here
ParamSets ==
  [ma_type : {"SMA", "EMA", "WMA"}, fast_period : {1, 2}, slow_period : {2, 3},
   trend_filter_period : {2}, trend_filter_enabled : BOOLEAN]

InitSignalsE ==
  /\ prog = "BacktestEngine" /\ pc = "indicators"
  /\ LoopIdle
  /\ params \in ParamSets /\ result = None
  /\ self = None /\ call = None /\ pool = None /\ locals = None
  /\ \E c \in SeqsUpTo(CloseLevels, MaxLen) : df = [Close |-> c]

\* generate_signals lines 134-140.  An invalid ma_type raises at line 118; the
\* handler of generate_signals (lines 169-171) returns an empty DataFrame, and
\* _run_backtest_for_params (lines 251-252) returns (strategy_params, []).
MovingAveragesE ==
  /\ prog = "BacktestEngine" /\ pc = "indicators"
  /\ IF ValidMaType(params.ma_type)
     THEN /\ pc' = "signals"
          /\ df' = [Close |-> df.Close,
                    ma_fast |-> calculate_ma(df.Close, params.fast_period, params.ma_type),
                    ma_slow |-> calculate_ma(df.Close, params.slow_period, params.ma_type),
                    ma_trend |-> IF params.trend_filter_enabled
                                 THEN calculate_ma(df.Close, params.trend_filter_period,
                                                   params.ma_type)
                                 ELSE <<>>]
          /\ UNCHANGED result
     ELSE /\ pc' = "done"
          /\ df' = None
          /\ result' = Some(ReturnE(<<>>))
  /\ LoopUnchanged /\ UNCHANGED params

\* generate_signals lines 144-167
CrossoversE ==
  /\ prog = "BacktestEngine" /\ pc = "signals"
  /\ pc' = "ready"
  /\ LET n == Len(df.Close)
         above == FastAboveSlow(df.ma_fast, df.ma_slow)
         up == CrossoverUp(above)
         down == CrossoverDown(above)
         bullish == [t \in 1 .. n |->
                       IF params.trend_filter_enabled
                       THEN GtQ(Num(df.Close[t]), df.ma_trend[t]) ELSE TRUE]
         bearish == [t \in 1 .. n |->
                       IF params.trend_filter_enabled
                       THEN LtQ(Num(df.Close[t]), df.ma_trend[t]) ELSE TRUE]
         sg == [t \in 1 .. n |-> Signals(up[t], down[t], bullish[t], bearish[t])]
     IN df' = [Close |-> df.Close, ma_fast |-> df.ma_fast, ma_slow |-> df.ma_slow,
               ma_trend |-> df.ma_trend,
               crossover_up |-> up, crossover_down |-> down,
               long_entry_signal |-> [t \in 1 .. n |-> sg[t].long_entry_signal],
               short_entry_signal |-> [t \in 1 .. n |-> sg[t].short_entry_signal],
               long_exit_signal |-> [t \in 1 .. n |-> sg[t].long_exit_signal],
               short_exit_signal |-> [t \in 1 .. n |-> sg[t].short_exit_signal]]
  /\ LoopUnchanged /\ UNCHANGED <<params, result>>

InitSignals == InitSignalsT \/ InitSignalsE

NextSignals == CalculateIndicatorsT \/ GenerateSignalsT \/ MovingAveragesE \/ CrossoversE

SpecSignals == InitSignals /\ [][NextSignals]_vars

----------------------------------------------------------------------------
(* A run on no data: prepare_data returned None or an empty frame
   (src/10.py 67-69), _load_and_prepare_data returned an empty frame
   (src/backtester.py 198, 319) *)

InitNoData ==
  /\ prog \in {"backtest_strategy", "BacktestEngine"}
  /\ pc = "nodata" /\ i = 0 /\ row = NoRow
  /\ position = 0 /\ entry_price = None /\ entry_index = None
  /\ last_exit_index = -cooldown
  /\ trades_taken = <<>> /\ daily_pnl = <<>> /\ trade_log = <<>>
  /\ equity = capital /\ quantity = 0
  /\ entry_time = None /\ risk_params = None
  /\ df = None /\ params = None /\ result = None
  /\ self = None /\ call = None /\ pool = None /\ locals = None

\* src/10.py 68-69: return params, 0, 0, 0, [];
\* src/backtester.py 319-321: run returns [], the empty list of results
ReturnNoData ==
  /\ pc = "nodata"
  /\ pc' = "done"
  /\ result' = IF prog = "backtest_strategy" THEN Some(ErrorReturnT) ELSE Some(<<>>)
  /\ UNCHANGED <<self, call, pool, locals, prog, i, row, position, entry_price, entry_index, entry_time,
                 last_exit_index, trades_taken, daily_pnl, trade_log, equity,
                 quantity, risk_params, df, params>>

----------------------------------------------------------------------------
(* One run of one of the two loops *)

Init == InitT \/ InitE \/ InitNoData

Next == StepT \/ FinishT \/ StepE \/ FinishE \/ ReturnNoData

Spec == Init /\ [][Next]_vars

----------------------------------------------------------------------------
(* Vocabulary of the properties *)

T == "backtest_strategy"

E == "BacktestEngine"

\* the step processed one row (the row is row', its index is the unprimed i)
BarStep == i' = i + 1

Last(log) == log[Len(log)]

OpenRecords(log) == {k \in 1 .. Len(log) : log[k].ExitTime = None}

\* the step closed a trade on row'
ExitStep ==
  /\ BarStep
  /\ \/ prog = T /\ Len(trade_log) > 0 /\ Last(trade_log).ExitTime = None
        /\ trade_log'[Len(trade_log)].ExitTime # None
     \/ prog = E /\ Len(trade_log') = Len(trade_log) + 1

\* the record that ExitStep closed
Closed == IF prog = T THEN trade_log'[Len(trade_log)] ELSE Last(trade_log')

\* the step opened a position on row'
EntryStep ==
  /\ BarStep
  /\ \/ prog = T /\ Len(trade_log') = Len(trade_log) + 1
     \/ prog = E /\ position' # 0 /\ entry_time' = Some(row'.Date)

\* 09:15 .. 15:30, written out
InWindow(t) == t >= 555 /\ t <= 930

\* row r reaches the stop of 2% and the target of 4% of a position entered at entry
BreachesBoth(pos, entry, r) ==
  IF pos = 1
  THEN r.Low * 100 <= entry * 98 /\ r.High * 100 >= entry * 104
  ELSE r.High * 100 >= entry * 102 /\ r.Low * 100 <= entry * 96

----------------------------------------------------------------------------
(* C1 *)

C1_State ==
  /\ position \in {-1, 0, 1}
  /\ prog = T => Cardinality(OpenRecords(trade_log)) = (IF position = 0 THEN 0 ELSE 1)
  /\ prog = E => (position = 0 <=> entry_time = None)

\* C1: at every bar of either loop at most one position is open (position is
\* flat, long or short; backtest_strategy's ledger holds one open record when
\* in a position and none when flat), and an entry is accepted only while
\* flat: in backtest_strategy the position was flat before the bar, in
\* BacktestEngine it was flat before the bar or the bar's own exit closed it.
C1_OnePosition ==
  [][ /\ C1_State'
      /\ EntryStep =>
           \/ position = 0
           \/ prog = E /\ ExitStep /\ Closed.ExitTime = Some(row'.Date) ]_vars

\* a signal arrived in session while a position entered on an earlier row was
\* open, and was not taken
C1_Witness ==
  /\ prog = T /\ position # 0 /\ InWindow(row.Date.time)
  /\ row.longCond \/ row.shortCond
  /\ Last(trade_log).EntryTime # row.Date

----------------------------------------------------------------------------
(* C2 *)

\* sum of the absolute PnL of the closed records of backtest_strategy's ledger
RECURSIVE SumAbsPnl(_)
SumAbsPnl(log) ==
  IF log = <<>> THEN 0
  ELSE (IF Last(log).AbsPnL = None THEN 0 ELSE Val(Last(log).AbsPnL))
       + SumAbsPnl(SubSeq(log, 1, Len(log) - 1))

\* sum of the PnL fractions of BacktestEngine's ledger
RECURSIVE SumPnl(_)
SumPnl(log) ==
  IF log = <<>> THEN <<0, 1>>
  ELSE AddQ(Val(Last(log).PnL), SumPnl(SubSeq(log, 1, Len(log) - 1)))

\* backtest_strategy keeps equity = capital + the sum of the closed trades' PnL
C2_EquityT == prog = T => equity = capital + SumAbsPnl(trade_log)

\* C2: after every processed bar equity equals the initial capital plus the
\* sum of the net PnL of the trades closed so far.  BacktestEngine's ledger
\* holds each trade's PnL as a fraction of the entry price, which its report
\* turns into money by the initial capital (src/backtester.py line 385), so
\* there equity must be initial_capital * (1 + sum of the fractions).
C2_EquityConservation ==
  /\ C2_EquityT
  /\ prog = E =>
       Lowest(<<equity - initial_capital, initial_capital>>) = SumPnl(trade_log)

----------------------------------------------------------------------------
(* C3 *)

----------------------------------------------------------------------------
(* C4 *)

DirectionOf(rec) == IF rec.Position = "Long" THEN 1 ELSE -1

----------------------------------------------------------------------------
(* C5 *)

\* C5: when a run has finished no position is open and every record of the
\* ledger has an exit time and an exit price.
C5_EndOfData ==
  pc = "done" =>
    /\ position = 0
    /\ \A k \in 1 .. Len(trade_log) :
         trade_log[k].ExitTime # None /\ trade_log[k].ExitPrice # None

----------------------------------------------------------------------------
(* C6 *)

\* the realized PnL pnl of a day is at or below -2% of the capital
AtLossCap(pnl) == pnl * 100 <= -(2 * capital)

\* row r carries an entry signal that backtest_strategy can size
Enterable(r) ==
  /\ InWindow(r.Date.time)
  /\ r.longCond \/ r.shortCond
  /\ r.Close * lot_size <= capital

\* C6: in backtest_strategy, once the realized PnL of a day is at or below
\* -max_daily_loss * capital the position is flat and no entry is accepted on
\* a later row of that day; on the first row of the next day the day's counter
\* is zero and an entry signal in session is accepted again.
C6_DailyLossCap ==
  [][ (prog = T /\ BarStep) =>
        LET d == row'.Date.day
            before == row.Date.day
        IN /\ (d \in DOMAIN daily_pnl /\ AtLossCap(daily_pnl[d]))
                => /\ position = 0 /\ position' = 0
                   /\ trade_log' = trade_log
                   /\ daily_pnl'[d] = daily_pnl[d]
           /\ (/\ d # before
               /\ before \in DOMAIN daily_pnl
               /\ AtLossCap(daily_pnl[before]))
                => /\ d \notin DOMAIN daily_pnl
                   /\ daily_pnl'[d] = 0
                   /\ Enterable(row') => (position' # 0 /\ EntryStep) ]_vars

\* a day's loss has reached the cap and a later row of that day carried an
\* entry signal in session, which was refused
C6_Witness ==
  /\ prog = T /\ position = 0 /\ Len(trade_log) > 0
  /\ row.Date.day \in DOMAIN daily_pnl
  /\ AtLossCap(daily_pnl[row.Date.day])
  /\ Enterable(row)
  /\ Last(trade_log).ExitTime # Some(row.Date)

\* (reachability of the second half of C6: an entry on the day after the cap)
C6_NextDayEntry ==
  /\ prog = T /\ position # 0
  /\ \E d \in DOMAIN daily_pnl : d < row.Date.day /\ AtLossCap(daily_pnl[d])
  /\ Last(trade_log).EntryTime = row.Date

----------------------------------------------------------------------------
(* C7 *)

EntriesOn(log, d) == {k \in 1 .. Len(log) : log[k].EntryTime.day = d}

\* C7: in backtest_strategy the number of positions opened on one calendar day
\* never exceeds max_trades_day (15), whatever day they are closed on.
C7_MaxTradesPerDay ==
  prog = T => \A d \in Days : Cardinality(EntriesOn(trade_log, d)) <= 15

\* fifteen positions were opened and closed on the day and the next row of
\* that day, carrying an entry signal in session, opened nothing
C7_Witness ==
  /\ prog = T /\ position = 0
  /\ Cardinality(EntriesOn(trade_log, row.Date.day)) = 15
  /\ Enterable(row)
  /\ Last(trade_log).ExitTime # Some(row.Date)

\* (a position opened on one day and closed on the next is among the runs)
C7_CarriedOver ==
  \E k \in 1 .. Len(trade_log) :
    /\ trade_log[k].ExitTime # None
    /\ Val(trade_log[k].ExitTime).day # trade_log[k].EntryTime.day

----------------------------------------------------------------------------
(* C8 *)

\* C8: in backtest_strategy an entry on the row of index i that follows an
\* exit on the row of index j has i - j >= cooldown: last_exit_index is the
\* index of the row of the latest exit (it changes on an exit and only then),
\* an entry is made only when i - last_exit_index >= cooldown and on a row
\* later than the latest exit, and the row of an exit opens no position.
C8_Cooldown ==
  [][ (prog = T /\ BarStep) =>
        /\ ExitStep => /\ last_exit_index' = i
                       /\ ~EntryStep /\ position' = 0
        /\ ~ExitStep => last_exit_index' = last_exit_index
        /\ EntryStep =>
             /\ i - last_exit_index >= cooldown
             /\ Len(trade_log) > 0 =>
                  /\ Last(trade_log).ExitTime # None
                  /\ DateBefore(Val(Last(trade_log).ExitTime), row'.Date) ]_vars

\* a position has just been opened after an earlier trade was closed
C8_Witness ==
  /\ prog = T /\ position # 0 /\ Len(trade_log) >= 2
  /\ Last(trade_log).EntryTime = row.Date
  /\ last_exit_index >= 1

----------------------------------------------------------------------------
(* C9 *)

\* C9: every position opened by backtest_strategy has the quantity
\* floor(capital / (price * lot_size)) * lot_size for the close of its entry
\* row: a positive multiple of lot_size with quantity * price <= capital (so
\* no position is opened on a row whose close exceeds capital / lot_size), and
\* the quantity of the open position is the one recorded at its entry.
C9_Sizing ==
  prog = T =>
    /\ \A k \in 1 .. Len(trade_log) :
         LET price == trade_log[k].EntryPrice
             q == Val(trade_log[k].Quantity)
         IN /\ q = (Paise(100000) \div (price * 1)) * 1
            /\ q >= 1 /\ q % 1 = 0
            /\ q * price <= Paise(100000)
    /\ position # 0 => quantity = Val(Last(trade_log).Quantity)

\* a row in session carried an entry signal while flat and below the loss
\* cap, its close was above the whole capital, and nothing was opened
C9_Witness ==
  /\ prog = T /\ position = 0 /\ i > 1
  /\ InWindow(row.Date.time)
  /\ row.longCond \/ row.shortCond
  /\ row.Close * lot_size > capital
  /\ ~AtLossCap(daily_pnl[row.Date.day])
  /\ trade_log # <<>> => Last(trade_log).ExitTime # Some(row.Date)

----------------------------------------------------------------------------
(* C10 *)

\* C10: in backtest_strategy a row outside the session window opens and
\* closes nothing: position, entry attributes, ledger and equity are
\* unchanged, every daily counter keeps its value, and the only change to the
\* counters is that the row's day, if new, is entered with the value zero.
C10_OutOfSession ==
  [][ (prog = T /\ BarStep /\ ~InWindow(row'.Date.time)) =>
        /\ UNCHANGED <<position, entry_price, entry_index, last_exit_index,
                       trade_log, equity, quantity>>
        /\ DOMAIN daily_pnl' = DOMAIN daily_pnl \cup {row'.Date.day}
        /\ DOMAIN trades_taken' = DOMAIN trades_taken \cup {row'.Date.day}
        /\ \A d \in DOMAIN daily_pnl' :
             daily_pnl'[d] = (IF d \in DOMAIN daily_pnl THEN daily_pnl[d] ELSE 0)
        /\ \A d \in DOMAIN trades_taken' :
             trades_taken'[d] = (IF d \in DOMAIN trades_taken THEN trades_taken[d] ELSE 0)
      ]_vars

\* a row after the session reached the stop and the target of the open
\* position and carried an entry signal, and the position stayed open
C10_Witness ==
  /\ prog = T /\ position # 0
  /\ row.Date.time > 930
  /\ BreachesBoth(position, Val(entry_price), row)
  /\ row.longCond \/ row.shortCond
  /\ Last(trade_log).ExitTime = None

----------------------------------------------------------------------------
(* C11 *)

\* row r reaches the stop of 2% of a position entered at entry
StopHit(pos, entry, r) ==
  IF pos = 1 THEN r.Low * 100 <= entry * 98 ELSE r.High * 100 >= entry * 102

\* row r reaches the target of 4% of a position entered at entry
TargetHit(pos, entry, r) ==
  IF pos = 1 THEN r.High * 100 >= entry * 104 ELSE r.Low * 100 <= entry * 96

\* C11: in backtest_strategy a position that is open when the 15:29 row is
\* processed is closed on that row, whether or not the row reaches the stop
\* or the target: the open record gets the row's timestamp as its exit time
\* and the position is flat after the row.
C11_EodCutoff ==
  [][ (prog = T /\ BarStep /\ position # 0 /\ row'.Date.time = 929) =>
        /\ ExitStep
        /\ position' = 0
        /\ Closed.ExitTime = Some(row'.Date)
        /\ Closed.EntryTime # row'.Date ]_vars

\* a position entered on an earlier row has just been closed by a 15:29 row
\* that reached neither its stop nor its target
C11_Witness ==
  /\ prog = T /\ position = 0 /\ Len(trade_log) > 0
  /\ row.Date.time = 929
  /\ Last(trade_log).ExitTime = Some(row.Date)
  /\ ~StopHit(IF Last(trade_log).Position = "Long" THEN 1 ELSE -1,
              Last(trade_log).EntryPrice, row)
  /\ ~TargetHit(IF Last(trade_log).Position = "Long" THEN 1 ELSE -1,
                Last(trade_log).EntryPrice, row)

----------------------------------------------------------------------------
(* C12 *)

\* Row r carries the crossover against the open position.  BacktestEngine's
\* rows hold it as the exit signal of the position's side; backtest_strategy's
\* rows hold the two crossovers only inside longCond and shortCond
\* (src/10.py 56-59), so there a shortCond row is a cross-down row and a
\* longCond row a cross-up row.
OppositeCrossover(pos, r) ==
  IF prog = T
  THEN (pos = 1 /\ r.shortCond) \/ (pos = -1 /\ r.longCond)
  ELSE (pos = 1 /\ r.long_exit_signal) \/ (pos = -1 /\ r.short_exit_signal)

\* the stop loss fires on row r: the row reaches it and, in BacktestEngine,
\* the stop loss is enabled
StopFires(pos, entry, r) ==
  StopHit(pos, entry, r) /\ (prog = E => risk_params.enable_stop_loss)

TargetFires(pos, entry, r) ==
  TargetHit(pos, entry, r) /\ (prog = E => risk_params.enable_take_profit)

----------------------------------------------------------------------------
(* C13 *)

\* C13: every closed trade of the ledger has net PnL = (exit price - entry
\* price) * quantity * direction - commission * entry price * quantity, with
\* commission 0.0001.  backtest_strategy's records hold it as the absolute
\* PnL.  BacktestEngine's records hold the PnL per unit of entry value
\* (src/backtester.py line 292); divided by entry price * quantity the
\* equation reads PnL = (exit price - entry price) * direction / entry price
\* - commission_pct, whatever the quantity.
C13_NetPnl ==
  \A k \in 1 .. Len(trade_log) :
    LET t == trade_log[k]
    IN t.ExitTime # None =>
         /\ prog = T =>
              AddQ(<<Val(t.AbsPnL), 1>>, <<t.EntryPrice * Val(t.Quantity), 10000>>)
                = <<(Val(t.ExitPrice) - t.EntryPrice) * Val(t.Quantity) * DirectionOf(t), 1>>
         /\ prog = E =>
              AddQ(Val(t.PnL), <<1, 10000>>)
                = Lowest(<<(Val(t.ExitPrice) - t.EntryPrice) * DirectionOf(t), t.EntryPrice>>)

----------------------------------------------------------------------------
(* C14 *)

\* timestamp a is before timestamp b
Earlier(a, b) == a.day < b.day \/ (a.day = b.day /\ a.time < b.time)

ClosedRecords(log) == {k \in 1 .. Len(log) : log[k].ExitTime # None}

\* Each record but the last one is closed, and of two adjacent closed records
\* the first has the earlier exit time.  Every row has its own timestamp, so
\* exit times that never repeat are exits on different rows.
LedgerOrdered(log) ==
  \A k \in 1 .. Len(log) - 1 :
    /\ log[k].ExitTime # None
    /\ log[k + 1].ExitTime # None =>
         Earlier(Val(log[k].ExitTime), Val(log[k + 1].ExitTime))

----------------------------------------------------------------------------
(* C18 *)

\* number of rows of the frame of a finished run
RowsRead == IF prog = T /\ row = NoRow THEN 0 ELSE i

\* C18: a run on an empty frame or on a frame of fewer than 2 rows ends with
\* a returned value (it does not raise) that holds no trade and zero metrics:
\* backtest_strategy returns total return 0, win rate 0, Sharpe 0 and an
\* empty ledger; BacktestEngine returns an empty ledger for the parameter
\* set, or, on an empty frame, the empty list of results (its report shows
\* zero trades and zeros for the metrics of an empty ledger).
C18_ShortInput ==
  (pc = "done" /\ RowsRead < 2) =>
    /\ result # None
    /\ prog = T =>
         /\ Val(result).total_return = <<0, 1>>
         /\ Val(result).win_rate = <<0, 1>>
         /\ Val(result).sharpe = 0
         /\ Val(result).trade_log = <<>>
    /\ prog = E =>
         IF Val(result) = <<>> THEN TRUE ELSE Val(result).trade_log = <<>>

\* backtest_strategy has returned from a frame of one row, an in-session row
\* with an entry signal, which the loop (from index 1) never reads
C18_Witness ==
  /\ prog = T /\ pc = "done" /\ i = 1
  /\ row # NoRow /\ row.longCond /\ InWindow(row.Date.time)
  /\ result # None /\ Val(result).trade_log = <<>>

----------------------------------------------------------------------------
(* C19 *)

\* C19: a failure while one bar is processed costs only that bar: the run
\* goes on, and the trades completed before the failed bar are in the ledger
\* the run returns and in its metrics.  So whenever backtest_strategy has
\* returned, the returned ledger is the ledger the loop built, the returned
\* win rate is the share of its closed trades with positive PnL and the
\* returned total return is equity / capital - 1.
C19_FailureIsolation ==
  (prog = T /\ pc = "done") =>
    /\ Val(result).trade_log = trade_log
    /\ Val(result).win_rate =
         (IF ClosedRecords(trade_log) = {} THEN <<0, 1>>
          ELSE Lowest(<<Cardinality({k \in ClosedRecords(trade_log) :
                                       Val(trade_log[k].AbsPnL) > 0}),
                        Cardinality(ClosedRecords(trade_log))>>))
    /\ Val(result).total_return = Lowest(<<equity - capital, capital>>)

----------------------------------------------------------------------------
(* C15 *)

\* the crossover columns of the frame are computed
HasCrossovers ==
  \/ prog = T /\ pc \in {"signals", "ready"}
  \/ prog = E /\ pc = "ready"

\* the fast and the slow series the crossovers are taken of, and the columns
FastCol == IF prog = T THEN df.MACD ELSE df.ma_fast

SlowCol == IF prog = T THEN df.MACD_sig ELSE df.ma_slow

UpCol == IF prog = T THEN df.macd_cross_up ELSE df.crossover_up

DownCol == IF prog = T THEN df.macd_cross_down ELSE df.crossover_down

\* fast and slow are numbers at t and at t - 1
DefinedAt(t) ==
  /\ FastCol[t] # <<>> /\ SlowCol[t] # <<>>
  /\ FastCol[t - 1] # <<>> /\ SlowCol[t - 1] # <<>>

\* fast > slow, fast < slow, fast = slow at t, for numbers
FastOver(t) == FastCol[t][1][1] * SlowCol[t][1][2] > SlowCol[t][1][1] * FastCol[t][1][2]

FastUnder(t) == FastCol[t][1][1] * SlowCol[t][1][2] < SlowCol[t][1][1] * FastCol[t][1][2]

\* C15: in both signal generators, at every index i >= 1 at which fast[i],
\* slow[i], fast[i-1] and slow[i-1] are numbers, the cross-up column is True
\* exactly when fast[i] > slow[i] and fast[i-1] <= slow[i-1]; so for
\* fast = [1, 1, 2, 2] and slow = [2, 2, 1, 1] it is True at index 2 only.
\* (Element t of a column here is index t - 1 of the source.)
C15_CrossUp ==
  HasCrossovers =>
    /\ \A t \in 2 .. Len(UpCol) :
         DefinedAt(t) => (UpCol[t] <=> (FastOver(t) /\ ~FastOver(t - 1)))
    /\ ( /\ FastCol = <<<< <<1, 1>> >>, << <<1, 1>> >>, << <<2, 1>> >>, << <<2, 1>> >>>>
         /\ SlowCol = <<<< <<2, 1>> >>, << <<2, 1>> >>, << <<1, 1>> >>, << <<1, 1>> >>>> )
         => UpCol = <<FALSE, FALSE, TRUE, FALSE>>

\* calculate_indicators has flagged the cross-up of fast = [1, 1, 2, 2] and
\* slow = [2, 2, 1, 1] at index 2
C15_Witness ==
  /\ prog = T /\ HasCrossovers
  /\ df.MACD = <<Num(1), Num(1), Num(2), Num(2)>>
  /\ df.MACD_sig = <<Num(2), Num(2), Num(1), Num(1)>>
  /\ df.macd_cross_up[3]

----------------------------------------------------------------------------
(* C16 *)

\* C16 as stated: in both signal generators, at every index i >= 1 at which
\* the four values are numbers, the cross-down column is True exactly when
\* fast[i] < slow[i] and fast[i-1] >= slow[i-1], ties included.
C16_Original ==
  HasCrossovers =>
    \A t \in 2 .. Len(DownCol) :
      DefinedAt(t) => (DownCol[t] <=> (FastUnder(t) /\ ~FastUnder(t - 1)))

\* C16 as amended: calculate_indicators (src/10.py) flags a cross-down
\* exactly when MACD[i] < MACD_sig[i] and MACD[i-1] >= MACD_sig[i-1];
\* CrossoverStrategy (src/backtester.py) flags it exactly when
\* fast[i] <= slow[i] and fast[i-1] > slow[i-1]: a tie on the current bar
\* after fast above slow is a cross-down, a tie on the previous bar followed
\* by fast below slow is not.
C16_CrossDown ==
  HasCrossovers =>
    \A t \in 2 .. Len(DownCol) :
      DefinedAt(t) =>
        /\ prog = T => (DownCol[t] <=> (FastUnder(t) /\ ~FastUnder(t - 1)))
        /\ prog = E => (DownCol[t] <=> (~FastOver(t) /\ FastOver(t - 1)))

\* CrossoverStrategy has flagged a cross-down on a bar where fast equals slow
C16_Witness ==
  /\ prog = E /\ HasCrossovers
  /\ \E t \in 2 .. Len(df.crossover_down) :
       /\ DefinedAt(t) /\ df.crossover_down[t]
       /\ ~FastOver(t) /\ ~FastUnder(t)

----------------------------------------------------------------------------
(* C17 *)

\* the frame flags a crossover or, once they are computed, an entry or exit
\* signal at element t
SignalAt(t) ==
  \/ UpCol[t] \/ DownCol[t]
  \/ /\ pc = "ready" /\ prog = T
     /\ df.longCond[t] \/ df.shortCond[t]
  \/ /\ pc = "ready" /\ prog = E
     /\ \/ df.long_entry_signal[t] \/ df.short_entry_signal[t]
        \/ df.long_exit_signal[t] \/ df.short_exit_signal[t]

\* C17: the signal generators flag no cross-up, cross-down, entry or exit
\* signal at bar 0, nor at a bar whose previous fast or slow moving average
\* is undefined (NaN, the warm-up of a rolling mean).
C17_NoFirstBarSignal ==
  HasCrossovers =>
    \A t \in 1 .. Len(UpCol) :
      (t = 1 \/ FastCol[t - 1] = <<>> \/ SlowCol[t - 1] = <<>>) => ~SignalAt(t)

----------------------------------------------------------------------------
(* C20 *)

\* C20: a run of BacktestEngine whose strategy parameters hold a ma_type
\* other than SMA and EMA ends, before its simulation loop starts, in an
\* error: it never hands back a result that looks like a normal one, such as
\* an empty trade log.
C20_ConfigError ==
  (prog = E /\ params # None /\ pc # "indicators"
     /\ params.ma_type \notin {"SMA", "EMA"})
    => /\ pc = "done"
       /\ result # None
       /\ "trade_log" \notin DOMAIN Val(result)


----------------------------------------------------------------------------
(* The components of trading_bot and the functions around the loops.  One
   behaviour is a sequence of calls on one object (or one call of one
   function); the bar loops and the signal generators are idle. *)

ComponentIdle == LoopIdle /\ df = None /\ params = None

ComponentUnchanged ==
  UNCHANGED <<prog, i, row, position, entry_price, entry_index, entry_time,
              last_exit_index, trades_taken, daily_pnl, trade_log, equity,
              quantity, risk_params, df, params>>

\* a call that returned v, a call that raised e
Returned(v) == Some(<<"return", v>>)

Raised(e) == Some(<<"raise", e>>)

IsReturn(r) == r # None /\ Val(r)[1] = "return"

IsRaise(r) == r # None /\ Val(r)[1] = "raise"

ReturnValue(r) == Val(r)[2]

\* the symbols the components are called with
Symbols == {"NIFTY", "BANKNIFTY"}

----------------------------------------------------------------------------
(* BacktestEngine.run, src/backtester.py 315-345: the parameter sweep.  self
   holds what the engine was built with: the frame (its Close column, and
   whether it has the High and Low columns; _load_and_prepare_data, lines
   203-236, requires the Date column only), the parameter sets in the order
   of the grid, the risk parameters and use_multiprocessing.  pool[k] is the
   state of the run for parameter set k: with multiprocessing each run is a
   call of _run_backtest_for_params in a worker process, on that process's
   copy of the engine, and the runs are interleaved in every way; without, run
   k starts when run k-1 has returned.  call is the sequence of the runs in
   the order in which they ended. *)

\* Close columns of the frames of the sweeps
SweepSeries == {<<1, 2, 3, 1, 3>>, <<3, 2, 1, 3, 1>>, <<2, 2>>}

\* the parameter sets of the sweeps
SweepParams ==
  [ma_type : {"SMA", "WMA"}, fast_period : {1, 2}, slow_period : {3},
   trend_filter_period : {2}, trend_filter_enabled : {FALSE}]

\* generate_signals, lines 134-171, as a function: the signal columns, or None
\* for the empty frame its handler returns
SignalsOf(c, p) ==
  IF ~ValidMaType(p.ma_type) THEN None
  ELSE LET n == Len(c)
           above == FastAboveSlow(calculate_ma(c, p.fast_period, p.ma_type),
                                  calculate_ma(c, p.slow_period, p.ma_type))
           up == CrossoverUp(above)
           down == CrossoverDown(above)
           trend == IF p.trend_filter_enabled
                    THEN calculate_ma(c, p.trend_filter_period, p.ma_type)
                    ELSE <<>>
       IN Some([t \in 1 .. n |->
                  Signals(up[t], down[t],
                          IF p.trend_filter_enabled THEN GtQ(Num(c[t]), trend[t]) ELSE TRUE,
                          IF p.trend_filter_enabled THEN LtQ(Num(c[t]), trend[t]) ELSE TRUE)])

\* row t of signals_df; High and Low are those of a quiet bar when the frame
\* has them, and are not read when it has not (see ReadsMissingColumn)
SweepRow(s, sg, t) ==
  [Date |-> [day |-> 0, time |-> t],
   Close |-> Paise(s.Close[t]), High |-> Paise(s.Close[t]), Low |-> Paise(s.Close[t]),
   long_entry_signal |-> sg[t].long_entry_signal,
   short_entry_signal |-> sg[t].short_entry_signal,
   long_exit_signal |-> sg[t].long_exit_signal,
   short_exit_signal |-> sg[t].short_exit_signal]

\* lines 269 and 279: with a position open and a stop or target enabled the
\* row's Low or High is read, which raises KeyError when the column is missing
ReadsMissingColumn(pos, rp, has_high_low) ==
  pos # 0 /\ ~has_high_low /\ (rp.enable_stop_loss \/ rp.enable_take_profit)

\* lines 254-259
RunStart ==
  [pc |-> "signals", i |-> 0, signals_df |-> None, position |-> 0,
   entry_price |-> 0, entry_time |-> None, trade_log |-> <<>>]

\* one step of _run_backtest_for_params(params) from the state l: lines
\* 249-252, then one iteration of the loop (lines 262-311) per step, then the
\* return of line 313
RunStep(l, s, p) ==
  IF l.pc = "signals"
  THEN LET sg == SignalsOf(s.Close, p)
       IN IF sg = None THEN [l EXCEPT !.pc = "done"]
          ELSE [l EXCEPT !.pc = "loop", !.signals_df = sg]
  ELSE IF l.i >= Len(s.Close) THEN [l EXCEPT !.pc = "done"]
  ELSE IF ReadsMissingColumn(l.position, s.risk, s.has_high_low)
  THEN [l EXCEPT !.pc = "raised"]
  ELSE LET r == SweepRow(s, Val(l.signals_df), l.i + 1)
           exit == IF l.position # 0
                   THEN ExitDecision(l.position, l.entry_price, r, s.risk)
                   ELSE None
           fired == exit # None
           flat == l.position = 0 \/ fired
           log == IF fired
                  THEN AppendTrade(l.trade_log,
                                   TradeRecord(l.position, l.entry_price,
                                               Val(l.entry_time), r,
                                               Val(exit)[1], Val(exit)[2]))
                  ELSE l.trade_log
       IN IF flat /\ r.long_entry_signal
          THEN [l EXCEPT !.i = @ + 1, !.trade_log = log, !.position = 1,
                         !.entry_price = r.Close, !.entry_time = Some(r.Date)]
          ELSE IF flat /\ r.short_entry_signal
          THEN [l EXCEPT !.i = @ + 1, !.trade_log = log, !.position = -1,
                         !.entry_price = r.Close, !.entry_time = Some(r.Date)]
          ELSE [l EXCEPT !.i = @ + 1, !.trade_log = log,
                         !.position = IF fired THEN 0 ELSE @,
                         !.entry_time = IF fired THEN None ELSE @]

RunEnded(l) == l.pc \in {"done", "raised"}

\* the whole call, from its first step to its end
RECURSIVE RunToEnd(_, _, _)
RunToEnd(l, s, p) == IF RunEnded(l) THEN l ELSE RunToEnd(RunStep(l, s, p), s, p)

\* line 252, 313: the pair returned (the frame of signals is dropped)
RunResult(l, p) == [params |-> p, trade_log |-> l.trade_log]

\* lines 336-345.  An exception that leaves a run is not handled: the list
\* comprehension of line 343 stops at it, pool.map of line 340 raises it
\* again in the parent; run has no handler, and raises.
SweepOutcomeAsCompleted(pl, sets) ==
  IF \E k \in DOMAIN pl : pl[k].pc = "raised"
  THEN Raised("KeyError")
  ELSE Returned([k \in DOMAIN pl |-> RunResult(pl[call[k]], sets[call[k]])])

SweepOutcome(pl, sets) ==
  IF \E k \in DOMAIN pl : pl[k].pc = "raised"
  THEN Raised("KeyError")
  ELSE Returned([k \in DOMAIN pl |-> RunResult(pl[k], sets[k])])

InitSweep ==
  /\ prog = "BacktestEngine.run" /\ pc = "sweep"
  /\ ComponentIdle
  /\ \E c \in SweepSeries, h \in BOOLEAN, m \in BOOLEAN,
        rp \in [enable_stop_loss : BOOLEAN, enable_take_profit : {FALSE}],
        sets \in SeqsUpTo(SweepParams, MaxSets) :
       /\ self = [Close |-> c, has_high_low |-> h, risk |-> rp,
                  use_multiprocessing |-> m, param_sets |-> sets]
       /\ pool = [k \in DOMAIN sets |-> RunStart]
  /\ call = <<>> /\ result = None /\ locals = None

\* one step of one run.  Sequentially, run k steps only after the runs before
\* it have returned.
WorkerStep ==
  /\ prog = "BacktestEngine.run" /\ pc = "sweep"
  /\ \E k \in DOMAIN pool :
       /\ ~RunEnded(pool[k])
       /\ self.use_multiprocessing \/ \A j \in 1 .. k - 1 : pool[j].pc = "done"
       /\ LET l == RunStep(pool[k], self, self.param_sets[k])
          IN /\ pool' = [pool EXCEPT ![k] = l]
             /\ call' = IF RunEnded(l) THEN Append(call, k) ELSE call
  /\ UNCHANGED <<self, pc, result, locals>> /\ ComponentUnchanged

\* lines 340-345: the results in the order of the parameter sets, once every
\* run has ended (sequentially: once a run has raised)
SweepReturn ==
  /\ prog = "BacktestEngine.run" /\ pc = "sweep"
  /\ \/ \A k \in DOMAIN pool : RunEnded(pool[k])
     \/ ~self.use_multiprocessing /\ \E k \in DOMAIN pool : pool[k].pc = "raised"
  /\ result' = SweepOutcome(pool, self.param_sets)
  /\ pc' = "done"
  /\ UNCHANGED <<self, call, pool, locals>> /\ ComponentUnchanged

NextSweep == WorkerStep \/ SweepReturn

SpecSweep == InitSweep /\ [][NextSweep]_vars

----------------------------------------------------------------------------
(* C21 *)

\* what the runs give when each is made alone, one after the other
Alone(k) == RunToEnd(RunStart, self, self.param_sets[k])

AloneOutcome ==
  IF \E k \in DOMAIN self.param_sets : Alone(k).pc = "raised"
  THEN Raised("KeyError")
  ELSE Returned([k \in DOMAIN self.param_sets |->
                   [params |-> self.param_sets[k], trade_log |-> Alone(k).trade_log]])

SweepDone == prog = "BacktestEngine.run" /\ pc = "done"

----------------------------------------------------------------------------
(* C22 *)

\* C22: a failure of the run for one parameter set is caught and reported
\* for that set only: the sweep returns, and holds the result of every
\* parameter set whose run does not fail.
C22_FailureIsolation ==
  SweepDone =>
    /\ IsReturn(result)
    /\ \A k \in DOMAIN self.param_sets :
         Alone(k).pc = "done" =>
           ReturnValue(result)[k] =
             [params |-> self.param_sets[k], trade_log |-> Alone(k).trade_log]

----------------------------------------------------------------------------
(* The metrics computed from a ledger: BacktestAnalyzer._process_results and
   _calculate_metrics (src/backtester.py 368-411) and the detailed block of
   src/10.py (lines 210-244).  df is the ledger as a frame, of which the
   column PnL is kept: one whole number per closed trade, in ledger order.
   A float of the result is Some(fraction), NaN is None, infinity is the
   fraction 1/0.  The Sharpe ratio is kept by its sign, as in SharpeSign;
   a PnL is in percent, money in paise; the averages of the source are not
   part of the result modelled here. *)

Inf == Some(<<1, 0>>)

\* PnL of one closed trade
PnLs == {-1, 0, 1, 2}

Ledgers == {<<>>} \cup SeqsUpTo(PnLs, MaxTrades)

RECURSIVE SumInt(_)
SumInt(arr) ==
  IF arr = <<>> THEN 0 ELSE arr[Len(arr)] + SumInt(SubSeq(arr, 1, Len(arr) - 1))

\* backtester.py 375-376, 10.py 217-218
Wins(arr) == SelectSeq(arr, LAMBDA x : x > 0)

Losses(arr) == SelectSeq(arr, LAMBDA x : x <= 0)

\* Series.std(), the sample standard deviation (ddof = 1): NaN for fewer than
\* two values, 0 when all values are equal, positive otherwise
StdIsNaN(arr) == Len(arr) < 2

StdIsZero(arr) == Len(arr) >= 2 /\ \A j, k \in DOMAIN arr : arr[j] = arr[k]

\* backtester.py 381 and 10.py 228: mean / std * sqrt(...) if std != 0 else 0.
\* NaN != 0 is true, and a quotient by NaN is NaN.
SharpePandas(arr) ==
  IF ~StdIsZero(arr)
  THEN IF StdIsNaN(arr) THEN NaN ELSE Num(Sgn(SumInt(arr)))
  ELSE Num(0)

\* backtester.py 397
ProfitFactorE(arr) ==
  IF SumInt(Losses(arr)) # 0
  THEN Some(Lowest(<<Abs(SumInt(Wins(arr))), Abs(SumInt(Losses(arr)))>>))
  ELSE Inf

\* 10.py 244
ProfitFactorT(arr) ==
  IF Losses(arr) # <<>> /\ SumInt(Losses(arr)) # 0
  THEN Some(Lowest(<<Abs(SumInt(Wins(arr))), Abs(SumInt(Losses(arr)))>>))
  ELSE NaN

\* 10.py 242-243: the losing trades are counted per group, the group of a
\* trade being the number of winning trades up to and including it
LossGroup(arr, k) == Cardinality({j \in 1 .. k : arr[j] > 0})

RECURSIVE MaxOf(_)
MaxOf(S) ==
  LET x == CHOOSE y \in S : TRUE
  IN IF S = {x} THEN x
     ELSE LET m == MaxOf(S \ {x}) IN IF x > m THEN x ELSE m

ConsecutiveLossesUngrouped(arr) == Len(Losses(arr))

ConsecutiveLosses(arr) ==
  MaxOf({Cardinality({k \in DOMAIN arr : LossGroup(arr, k) = g /\ arr[k] <= 0}) :
           g \in {LossGroup(arr, k) : k \in DOMAIN arr}})

\* Series.cumsum()
CumSum(arr) == [k \in 1 .. Len(arr) |-> SumInt(SubSeq(arr, 1, k))]

\* backtester.py 385-386: the PnL of a trade is a fraction of its entry price
\* (line 292), kept here in percent; the curve has one point per closed trade
EquityCurveE(arr) ==
  [k \in 1 .. Len(arr) |-> initial_capital + CumSum(arr)[k] * (initial_capital \div 100)]

\* 10.py 150-151: the column PnL is abs_pnl / capital * 100, so the column
\* Absolute PnL is the PnL in percent of the capital
AbsolutePnL(arr) == [k \in 1 .. Len(arr) |-> arr[k] * (capital \div 100)]

\* 10.py 232: the capital, then one point per closed trade
EquityCurveT(arr) ==
  <<capital>> \o [k \in 1 .. Len(arr) |-> capital + CumSum(AbsolutePnL(arr))[k]]

\* backtester.py 387 (expanding().max()), 10.py 233 (np.maximum.accumulate)
RunningPeak(curve) ==
  [k \in 1 .. Len(curve) |-> MaxOf({curve[j] : j \in 1 .. k})]

\* backtester.py 388, 10.py 234
Drawdown(curve) ==
  [k \in 1 .. Len(curve) |->
     Lowest(<<curve[k] - RunningPeak(curve)[k], RunningPeak(curve)[k]>>)]

\* the least of a set of fractions with positive denominators
MinQ(S) == CHOOSE x \in S : \A y \in S : x[1] * y[2] <= y[1] * x[2]

\* backtester.py 389
MaxDrawdownE(arr) ==
  LET drawdown == Drawdown(EquityCurveE(arr))
  IN Some(MinQ({drawdown[k] : k \in DOMAIN drawdown}))

\* 10.py 235, in percent
MaxDrawdownT(arr) ==
  LET drawdown == Drawdown(EquityCurveT(arr))
      least == MinQ({drawdown[k] : k \in DOMAIN drawdown})
  IN Some(Lowest(<<least[1] * 100, least[2]>>))

\* backtester.py 368-398, and 404-405 for an empty ledger
CalculateMetrics(arr) ==
  IF arr = <<>> THEN [Total_Trades |-> 0]
  ELSE [Total_Trades |-> Len(arr),
        Win_Rate |-> Lowest(<<Len(Wins(arr)), Len(arr)>>),
        Total_Return |-> Num(SumInt(arr)),
        Sharpe_Ratio |-> SharpePandas(arr),
        Max_Drawdown |-> MaxDrawdownE(arr),
        Profit_Factor |-> ProfitFactorE(arr)]

\* 10.py 211-244; nothing is computed for an empty ledger
DetailedMetrics(arr) ==
  IF arr = <<>> THEN None
  ELSE Some([total_trades |-> Len(arr),
             num_win |-> Len(Wins(arr)), num_loss |-> Len(Losses(arr)),
             sharpe |-> SharpePandas(arr),
             cumulative_pnl |-> Num(SumInt(arr)),
             max_dd |-> MaxDrawdownT(arr),
             consecutive_losses |-> ConsecutiveLosses(arr),
             profit_factor |-> ProfitFactorT(arr)])

InitMetrics ==
  /\ prog \in {"BacktestAnalyzer", "10.py"} /\ pc = "metrics"
  /\ LoopIdle /\ params = None
  /\ \E arr \in Ledgers : df = [PnL |-> arr]
  /\ self = None /\ call = <<>> /\ pool = None /\ locals = None /\ result = None

MetricsUnchanged == UNCHANGED <<self, call, pool, locals>> /\ ComponentUnchanged

CalculateMetricsE ==
  /\ prog = "BacktestAnalyzer" /\ pc = "metrics"
  /\ result' = Returned(CalculateMetrics(df.PnL))
  /\ pc' = "done"
  /\ MetricsUnchanged

DetailedMetricsT ==
  /\ prog = "10.py" /\ pc = "metrics"
  /\ result' = Returned(DetailedMetrics(df.PnL))
  /\ pc' = "done"
  /\ MetricsUnchanged

NextMetrics == CalculateMetricsE \/ DetailedMetricsT

SpecMetrics == InitMetrics /\ [][NextMetrics]_vars

\* the metrics were computed on a ledger with at least one closed trade
MetricsOfE == prog = "BacktestAnalyzer" /\ pc = "done" /\ df.PnL # <<>>

MetricsOfT == prog = "10.py" /\ pc = "done" /\ df.PnL # <<>>

SharpeReported ==
  IF prog = "10.py" THEN Val(ReturnValue(result)).sharpe
  ELSE ReturnValue(result).Sharpe_Ratio

ProfitFactorReported ==
  IF prog = "10.py" THEN Val(ReturnValue(result)).profit_factor
  ELSE ReturnValue(result).Profit_Factor

----------------------------------------------------------------------------
(* C23 *)

\* C23: the Sharpe ratio is exactly 0 whenever the ledger has fewer than two
\* closed trades or the standard deviation of the per-trade returns is 0; it
\* is never NaN.
C23_Sharpe ==
  MetricsOfE \/ MetricsOfT =>
    /\ SharpeReported # NaN
    /\ (Len(df.PnL) < 2 \/ \A j, k \in DOMAIN df.PnL : df.PnL[j] = df.PnL[k]) =>
         SharpeReported = Num(0)

----------------------------------------------------------------------------
(* C24 *)

\* C24: the profit factor is the sum of the winning PnL over the absolute sum
\* of the losing PnL, is NaN when there is no losing trade, and is never
\* infinity.
C24_ProfitFactor ==
  MetricsOfE \/ MetricsOfT =>
    LET w == SumInt(SelectSeq(df.PnL, LAMBDA x : x > 0))
        l == SumInt(SelectSeq(df.PnL, LAMBDA x : x <= 0))
    IN /\ ProfitFactorReported # Inf
       /\ (\A k \in DOMAIN df.PnL : df.PnL[k] > 0) => ProfitFactorReported = NaN
       /\ l # 0 => ProfitFactorReported = Some(Lowest(<<w, -l>>))

----------------------------------------------------------------------------
(* C25 *)

\* the trades j .. k are a run of losing trades
LosingRun(arr, j, k) == j <= k /\ \A x \in j .. k : arr[x] <= 0

\* C25: maxConsecutiveLosses is the length of the longest run of consecutive
\* losing trades in ledger order, 0 when no trade loses.
C25_ConsecutiveLosses ==
  MetricsOfT =>
    LET arr == df.PnL
        n == Val(ReturnValue(result)).consecutive_losses
    IN /\ \A j, k \in DOMAIN arr : LosingRun(arr, j, k) => k - j + 1 <= n
       /\ n = 0 \/ \E j, k \in DOMAIN arr : LosingRun(arr, j, k) /\ k - j + 1 = n

\* two losing trades, a win, one losing trade: the win ends the first run
C25_Witness ==
  /\ MetricsOfT /\ Len(df.PnL) = 4
  /\ df.PnL[1] <= 0 /\ df.PnL[2] <= 0 /\ df.PnL[3] > 0 /\ df.PnL[4] <= 0
  /\ Val(ReturnValue(result)).consecutive_losses = 2

----------------------------------------------------------------------------
(* RiskManager, src/trading_bot/bot/risk_manager.py.  call is the sequence of
   the calls made so far, the last one at the end. *)

\* lines 32-39
CanOpenIgnoringClosedToday(s, symbol, current_position_count) ==
  ~(current_position_count >= s.max_concurrent_positions)

can_open_new_position(s, symbol, current_position_count) ==
  IF current_position_count >= s.max_concurrent_positions THEN FALSE
  ELSE IF symbol \in s.closed_today THEN FALSE
  ELSE TRUE

\* line 48
add_closed_position(s, symbol) ==
  [s EXCEPT !.closed_today = @ \cup {symbol}]

\* line 53
reset(s) == [s EXCEPT !.closed_today = {}]

\* lines 17-18; the test builds RiskManager(max_concurrent_positions=5)
InitRisk ==
  /\ prog = "RiskManager" /\ pc = "ready"
  /\ ComponentIdle
  /\ \E m \in 1 .. MaxPositions :
       self = [max_concurrent_positions |-> m, closed_today |-> {}]
  /\ call = <<>> /\ result = None /\ pool = None /\ locals = None

CanOpenR ==
  /\ prog = "RiskManager" /\ Len(call) < MaxCalls
  /\ \E symbol \in Symbols, n \in 0 .. MaxPositions :
       /\ call' = Append(call, [op |-> "can_open_new_position",
                                symbol |-> symbol, n |-> n])
       /\ result' = Returned(can_open_new_position(self, symbol, n))
  /\ UNCHANGED <<self, pc, pool, locals>> /\ ComponentUnchanged

AddClosedR ==
  /\ prog = "RiskManager" /\ Len(call) < MaxCalls
  /\ \E symbol \in Symbols :
       /\ call' = Append(call, [op |-> "add_closed_position", symbol |-> symbol])
       /\ self' = add_closed_position(self, symbol)
  /\ result' = Returned(None)
  /\ UNCHANGED <<pc, pool, locals>> /\ ComponentUnchanged

ResetR ==
  /\ prog = "RiskManager" /\ Len(call) < MaxCalls
  /\ call' = Append(call, [op |-> "reset"])
  /\ self' = reset(self)
  /\ result' = Returned(None)
  /\ UNCHANGED <<pc, pool, locals>> /\ ComponentUnchanged

NextRisk == CanOpenR \/ AddClosedR \/ ResetR

SpecRisk == InitRisk /\ [][NextRisk]_vars

----------------------------------------------------------------------------
(* C26 *)

\* the symbols passed to add_closed_position since the last reset, read off
\* the calls made before the last one
ClosedSinceReset(h) ==
  {h[j].symbol : j \in {k \in 1 .. Len(h) - 1 :
                          /\ h[k].op = "add_closed_position"
                          /\ \A l \in k + 1 .. Len(h) - 1 : h[l].op # "reset"}}

LastCallIs(op) == call # <<>> /\ call[Len(call)].op = op

\* C26: can_open_new_position(symbol, n) returns True exactly when n is below
\* max_concurrent_positions and symbol was not passed to add_closed_position
\* since the last reset (or since construction).
C26_CanOpen ==
  prog = "RiskManager" /\ LastCallIs("can_open_new_position") =>
    LET c == call[Len(call)]
    IN ReturnValue(result) =
         (c.n < self.max_concurrent_positions /\ c.symbol \notin ClosedSinceReset(call))

\* a symbol that was closed is allowed again after reset
C26_Witness ==
  /\ prog = "RiskManager" /\ Len(call) = 3
  /\ call[1].op = "add_closed_position"
  /\ call[2].op = "reset"
  /\ call[3].op = "can_open_new_position" /\ call[3].symbol = call[1].symbol
  /\ call[3].n < self.max_concurrent_positions
  /\ ReturnValue(result) = TRUE

----------------------------------------------------------------------------
(* PositionManager, src/trading_bot/bot/position_manager.py.  open_positions
   is a function from the symbols that have a position to their Position;
   call is the sequence of the calls made so far. *)

Sides == {"BUY", "SELL"}

\* entry and market prices, in rupees
EntryPrices == {15000, 15100}

MarketPrices == {15000, 15050}

\* lines 10-18; quantity, stop_loss, profit_target and entry_time are the
\* same for every position here (quantity 1, as in the test)
Position(symbol, side, price) ==
  [symbol |-> symbol, side |-> side, entry_price |-> price, quantity |-> 1, pnl |-> 0]

\* lines 20-25
update_pnl(p, current_price) ==
  [p EXCEPT !.pnl = IF p.side = "BUY"
                    THEN (current_price - p.entry_price) * p.quantity
                    ELSE (p.entry_price - current_price) * p.quantity]

\* a dict with one more key, and with one key less
PutKey(d, k, v) == [x \in DOMAIN d \cup {k} |-> IF x = k THEN v ELSE d[x]]

DelKey(d, k) == [x \in DOMAIN d \ {k} |-> d[x]]

\* lines 34-41
AddPositionOverwriting(s, symbol, side, price) ==
  [s EXCEPT !.open_positions = PutKey(@, symbol, Position(symbol, side, price))]

add_position(s, symbol, side, price) ==
  IF symbol \in DOMAIN s.open_positions THEN s
  ELSE [s EXCEPT !.open_positions = PutKey(@, symbol, Position(symbol, side, price))]

\* lines 43-49
remove_position(s, symbol) ==
  IF symbol \in DOMAIN s.open_positions
  THEN [s EXCEPT !.open_positions = DelKey(@, symbol)]
  ELSE s

\* lines 51-53: dict.get, None for a missing key
get_position(s, symbol) ==
  IF symbol \in DOMAIN s.open_positions THEN Some(s.open_positions[symbol]) ELSE None

\* lines 59-61
get_open_position_count(s) == Cardinality(DOMAIN s.open_positions)

\* lines 63-69
update_all_positions(s, current_prices) ==
  [s EXCEPT !.open_positions =
     [x \in DOMAIN @ |-> IF x \in DOMAIN current_prices
                         THEN update_pnl(@[x], current_prices[x])
                         ELSE @[x]]]

\* lines 31-32
InitPositions ==
  /\ prog = "PositionManager" /\ pc = "ready"
  /\ ComponentIdle
  /\ self = [open_positions |-> <<>>]
  /\ call = <<>> /\ result = None /\ pool = None /\ locals = None

AddP ==
  /\ prog = "PositionManager" /\ Len(call) < MaxCalls
  /\ \E symbol \in Symbols, side \in Sides, price \in EntryPrices :
       /\ call' = Append(call, [op |-> "add_position", symbol |-> symbol,
                                side |-> side, entry_price |-> price])
       /\ self' = add_position(self, symbol, side, price)
  /\ result' = Returned(None)
  /\ UNCHANGED <<pc, pool, locals>> /\ ComponentUnchanged

RemoveP ==
  /\ prog = "PositionManager" /\ Len(call) < MaxCalls
  /\ \E symbol \in Symbols :
       /\ call' = Append(call, [op |-> "remove_position", symbol |-> symbol])
       /\ self' = remove_position(self, symbol)
  /\ result' = Returned(None)
  /\ UNCHANGED <<pc, pool, locals>> /\ ComponentUnchanged

GetP ==
  /\ prog = "PositionManager" /\ Len(call) < MaxCalls
  /\ \E symbol \in Symbols :
       /\ call' = Append(call, [op |-> "get_position", symbol |-> symbol])
       /\ result' = Returned(get_position(self, symbol))
  /\ UNCHANGED <<self, pc, pool, locals>> /\ ComponentUnchanged

CountP ==
  /\ prog = "PositionManager" /\ Len(call) < MaxCalls
  /\ call' = Append(call, [op |-> "get_open_position_count"])
  /\ result' = Returned(get_open_position_count(self))
  /\ UNCHANGED <<self, pc, pool, locals>> /\ ComponentUnchanged

UpdateP ==
  /\ prog = "PositionManager" /\ Len(call) < MaxCalls
  /\ \E known \in SUBSET Symbols, price \in MarketPrices :
       /\ known # {}
       /\ call' = Append(call, [op |-> "update_all_positions"])
       /\ self' = update_all_positions(self, [x \in known |-> price])
  /\ result' = Returned(None)
  /\ UNCHANGED <<pc, pool, locals>> /\ ComponentUnchanged

NextPositions == AddP \/ RemoveP \/ GetP \/ CountP \/ UpdateP

SpecPositions == InitPositions /\ [][NextPositions]_vars

----------------------------------------------------------------------------
(* C27 *)

\* the symbols added and not removed since, read off the first n calls of h
AddedNotRemoved(h, n) ==
  {s \in Symbols :
     \E j \in 1 .. n :
       /\ h[j].op = "add_position" /\ h[j].symbol = s
       /\ \A l \in j + 1 .. n : ~(h[l].op = "remove_position" /\ h[l].symbol = s)}

\* C27: get_open_position_count is the number of distinct symbols added and
\* not yet removed; add_position for a symbol that already has a position
\* leaves that position as it is; after remove_position of a symbol,
\* get_position of it returns None.
C27_Positions ==
  [][prog = "PositionManager" =>
       LET c == call'[Len(call')]
       IN /\ c.op = "get_open_position_count" =>
               ReturnValue(result') = Cardinality(AddedNotRemoved(call, Len(call)))
          /\ c.op = "add_position" /\ c.symbol \in AddedNotRemoved(call, Len(call)) =>
               /\ c.symbol \in DOMAIN self.open_positions
               /\ self'.open_positions[c.symbol] = self.open_positions[c.symbol]
          /\ c.op = "get_position" /\ call # <<>>
               /\ call[Len(call)].op = "remove_position"
               /\ call[Len(call)].symbol = c.symbol =>
               ReturnValue(result') = None]_vars

\* a second add_position for an open symbol with another side or price, and a
\* count call that follows it
C27_Witness ==
  /\ prog = "PositionManager" /\ Len(call) = 3
  /\ call[1].op = "add_position" /\ call[2].op = "add_position"
  /\ call[2].symbol = call[1].symbol
  /\ call[2].side # call[1].side /\ call[2].entry_price # call[1].entry_price
  /\ call[3].op = "get_open_position_count"
  /\ ReturnValue(result) = 1

----------------------------------------------------------------------------
(* BacktestEngine.run of src/trading_bot/backtest/engine.py: the loop that
   fetches the historical data in chunks (lines 51-70).  Dates are day
   numbers (strptime of a '%Y-%m-%d' string gives midnight of the day);
   call is the sequence of the get_historical_data calls made so far. *)

\* line 56: timedelta(days=90)
ChunkDays == 90

\* start_date of the runs
StartDays == {0, 1}

\* what get_historical_data returns: None (an empty list is falsy in the same
\* way at line 64), or a list of bars
DataChunks == {None, <<[intc |-> 100]>>}

\* lines 56-57
ChunkEnd(current_start_date, end_date_dt) ==
  IF current_start_date + ChunkDays > end_date_dt
  THEN end_date_dt
  ELSE current_start_date + ChunkDays

\* line 65
NextStartSameDay(chunk_end_date) == chunk_end_date

NextStart(chunk_end_date) == chunk_end_date + 1

\* lines 27-28 and 52-54
InitChunks ==
  /\ prog = "trading_bot.BacktestEngine" /\ pc = "fetch"
  /\ ComponentIdle
  /\ \E s \in StartDays, e \in 0 .. (1 + MaxSpan) :
       /\ s <= e /\ e - s <= MaxSpan
       /\ self = [start_date |-> s, end_date |-> e]
       /\ locals = [all_data |-> <<>>, current_start_date |-> s, end_date_dt |-> e]
  /\ call = <<>> /\ result = None /\ pool = None

\* lines 55-65: one iteration of the while loop
FetchChunk ==
  /\ prog = "trading_bot.BacktestEngine" /\ pc = "fetch"
  /\ locals.current_start_date < locals.end_date_dt
  /\ LET chunk_end_date == ChunkEnd(locals.current_start_date, locals.end_date_dt)
     IN /\ call' = Append(call, [op |-> "get_historical_data",
                                 start_date |-> locals.current_start_date,
                                 end_date |-> chunk_end_date])
        /\ \E data_chunk \in DataChunks :
             locals' = [locals EXCEPT
                          !.all_data = IF data_chunk # None THEN @ \o data_chunk ELSE @,
                          !.current_start_date = NextStart(chunk_end_date)]
  /\ UNCHANGED <<self, pc, result, pool>> /\ ComponentUnchanged

\* line 55 is false; lines 67-69 return when nothing was fetched, otherwise
\* the bars are replayed (lines 71-83)
LeaveFetchLoop ==
  /\ prog = "trading_bot.BacktestEngine" /\ pc = "fetch"
  /\ ~(locals.current_start_date < locals.end_date_dt)
  /\ IF locals.all_data = <<>>
     THEN pc' = "done" /\ result' = Returned(None)
     ELSE pc' = "replay" /\ UNCHANGED result
  /\ UNCHANGED <<self, call, locals, pool>> /\ ComponentUnchanged

NextChunks == FetchChunk \/ LeaveFetchLoop

SpecChunks == InitChunks /\ [][NextChunks]_vars /\ WF_vars(NextChunks)

----------------------------------------------------------------------------
(* C28 *)

ChunksWellFormed ==
  prog = "trading_bot.BacktestEngine" =>
    /\ call # <<>> => call[1].start_date = self.start_date
    /\ \A k \in 1 .. Len(call) :
         /\ call[k].end_date - call[k].start_date <= ChunkDays
         /\ call[k].end_date <= self.end_date
         /\ k > 1 => call[k].start_date = call[k - 1].end_date + 1

FetchLoopLeft == prog = "trading_bot.BacktestEngine" /\ pc \in {"done", "replay"}

\* C28: the first chunk starts at start_date, every chunk spans at most 90
\* days and never ends after end_date, each following chunk starts exactly
\* one day after the previous chunk's end, and the fetch loop terminates for
\* every start_date <= end_date.
C28_Chunks == []ChunksWellFormed /\ <>FetchLoopLeft

\* three chunks were fetched and the loop was left
C28_Witness ==
  /\ FetchLoopLeft /\ Len(call) = 3
  /\ call[1].end_date - call[1].start_date = ChunkDays
  /\ call[3].end_date = self.end_date

----------------------------------------------------------------------------
(* download_nifty_data, src/data_downloader.py.  Dates are day numbers; the
   source compares and passes them as 'YYYY-MM-DD' strings, whose order is
   the order of the days.  The file on disk is described by whether it
   exists, whether read_csv can read it, and the latest date in it. *)

Files ==
  {[exists |-> FALSE, readable |-> FALSE, latest |-> 0],
   [exists |-> TRUE, readable |-> FALSE, latest |-> 0]}
  \cup {[exists |-> TRUE, readable |-> TRUE, latest |-> l] : l \in 0 .. MaxDate}

\* lines 34-48: the start date of the request
ResumeFrom(file, start_date) ==
  IF file.exists /\ file.readable /\ file.latest > start_date
  THEN file.latest + 1
  ELSE start_date

InitDownload ==
  /\ prog = "download_nifty_data" /\ pc = "authenticate"
  /\ ComponentIdle
  /\ self = None /\ pool = None /\ call = <<>> /\ result = None
  /\ \E s, e \in 0 .. MaxDate, f \in Files, a \in BOOLEAN :
       locals = [args |-> [start_date |-> s, end_date |-> e],
                 start_date |-> s, end_date |-> e,
                 file |-> f, authenticated |-> a, saved |-> FALSE]

DownloadUnchanged == UNCHANGED <<self, pool>> /\ ComponentUnchanged

\* lines 21-24
Authenticate ==
  /\ prog = "download_nifty_data" /\ pc = "authenticate"
  /\ IF locals.authenticated
     THEN pc' = "resume" /\ UNCHANGED result
     ELSE pc' = "done" /\ result' = Returned(None)
  /\ UNCHANGED <<locals, call>> /\ DownloadUnchanged

\* lines 34-50
Resume ==
  /\ prog = "download_nifty_data" /\ pc = "resume"
  /\ locals' = [locals EXCEPT !.start_date = ResumeFrom(locals.file, @)]
  /\ pc' = "request"
  /\ UNCHANGED <<call, result>> /\ DownloadUnchanged

\* lines 57-92: the request, which may raise (the function then returns), may
\* bring nothing, or brings rows that are written to the file
Request ==
  /\ prog = "download_nifty_data" /\ pc = "request"
  /\ call' = Append(call, [op |-> "get_historical_data",
                           start_date |-> locals.start_date,
                           end_date |-> locals.end_date])
  /\ \E outcome \in {"raise", "nothing", "data"} :
       locals' = [locals EXCEPT !.saved = (outcome = "data")]
  /\ pc' = "done" /\ result' = Returned(None)
  /\ DownloadUnchanged

NextDownload == Authenticate \/ Resume \/ Request

SpecDownload == InitDownload /\ [][NextDownload]_vars

----------------------------------------------------------------------------
(* C29 *)

\* C29: with an existing file whose latest date is L and start_date <= L, the
\* data is requested from L + 1 day to end_date, also when L = start_date.
C29_Resume ==
  prog = "download_nifty_data" /\ call # <<>>
    /\ locals.file.exists /\ locals.file.readable
    /\ locals.args.start_date <= locals.file.latest =>
      /\ call[1].start_date = locals.file.latest + 1
      /\ call[1].end_date = locals.args.end_date

----------------------------------------------------------------------------
(* FlattradeBroker.place_order, src/trading_bot/brokers/flattrade.py 149-164.
   The response of the API is None or a dict; a dict is a function from its
   keys to strings. *)

ResponseKeys == {"stat", "norenordno", "emsg"}

ResponseValues(k) ==
  IF k = "stat" THEN {"Ok", "Not_Ok"}
  ELSE IF k = "norenordno" THEN {"", "67890"}
  ELSE {"Order failed"}

Dicts ==
  UNION {{d \in [K -> {"Ok", "Not_Ok", "", "67890", "Order failed"}] :
            \A k \in K : d[k] \in ResponseValues(k)} : K \in SUBSET ResponseKeys}

Responses == {None} \cup {Some(d) : d \in Dicts}

\* dict.get(k): None for a missing key
Get(d, k) == IF k \in DOMAIN d THEN Some(d[k]) ELSE None

\* truth value of an optional dict and of an optional string
TruthyDict(r) == r # None /\ DOMAIN Val(r) # {}

TruthyStr(o) == o # None /\ Val(o) # ""

\* lines 153-157: the arguments passed on to api.place_order
ApiOrder(transaction_type, order_type, product) ==
  [buy_or_sell |-> IF transaction_type = "BUY" THEN "B" ELSE "S",
   product_type |-> IF product = "MIS" THEN "M" ELSE "C",
   price_type |-> IF order_type = "MARKET" THEN "MKT" ELSE "LMT"]

\* lines 159-164; ret.get on None at line 163 raises AttributeError
PlaceOrderOutcome(ret) ==
  IF TruthyDict(ret) /\ Get(Val(ret), "stat") = Some("Ok")
       /\ TruthyStr(Get(Val(ret), "norenordno"))
  THEN Returned(Get(Val(ret), "norenordno"))
  ELSE IF ret = None THEN Raised("AttributeError")
  ELSE Returned(None)

InitOrder ==
  /\ prog = "FlattradeBroker.place_order" /\ pc = "call"
  /\ ComponentIdle
  /\ self = None /\ pool = None /\ call = <<>> /\ result = None
  /\ \E t \in {"BUY", "SELL"}, o \in {"MARKET", "LIMIT", "SL"}, p \in {"MIS", "CNC"} :
       locals = [transaction_type |-> t, order_type |-> o, product |-> p, ret |-> None]

\* lines 151-158: the API call, run in the executor
CallApi ==
  /\ prog = "FlattradeBroker.place_order" /\ pc = "call"
  /\ call' = Append(call, [op |-> "api.place_order",
                           order |-> ApiOrder(locals.transaction_type,
                                              locals.order_type, locals.product)])
  /\ \E ret \in Responses : locals' = [locals EXCEPT !.ret = ret]
  /\ pc' = "respond"
  /\ UNCHANGED <<self, pool, result>> /\ ComponentUnchanged

\* lines 159-164
Respond ==
  /\ prog = "FlattradeBroker.place_order" /\ pc = "respond"
  /\ result' = PlaceOrderOutcome(locals.ret)
  /\ pc' = "done"
  /\ UNCHANGED <<self, pool, call, locals>> /\ ComponentUnchanged

NextOrder == CallApi \/ Respond

SpecOrder == InitOrder /\ [][NextOrder]_vars

----------------------------------------------------------------------------
(* C30 *)

OkWithOrderNumber(ret) ==
  /\ ret # None
  /\ "stat" \in DOMAIN Val(ret) /\ Val(ret)["stat"] = "Ok"
  /\ "norenordno" \in DOMAIN Val(ret) /\ Val(ret)["norenordno"] # ""

\* C30: place_order returns None without raising when the API call returns
\* None, a status other than 'Ok', or 'Ok' without an order number; it
\* returns the order number only for an 'Ok' response that carries one.
C30_PlaceOrder ==
  prog = "FlattradeBroker.place_order" /\ pc = "done" =>
    /\ IsReturn(result)
    /\ ReturnValue(result) =
         IF OkWithOrderNumber(locals.ret)
         THEN Some(Val(locals.ret)["norenordno"])
         ELSE None

----------------------------------------------------------------------------
(* C31 *)

\* C31: in backtest_strategy the quantity of every entry is computed from the
\* account's capital at that entry (the equity after the trades closed so
\* far), in whole lots, not from the capital the run started with.
C31_SizedFromCurrentCapital ==
  [][prog = T /\ EntryStep =>
       quantity' = (equity \div (row'.Close * lot_size)) * lot_size]_vars

----------------------------------------------------------------------------
(* C39 *)

\* the requested chunks that hold day d
ChunksHolding(d) ==
  {k \in 1 .. Len(call) : call[k].start_date <= d /\ d <= call[k].end_date}

\* C39: for start_date < end_date the chunks requested by BacktestEngine.run
\* cover every day of [start_date, end_date], end_date included, each day
\* lying in exactly one chunk.
C39_Coverage ==
  FetchLoopLeft /\ self.start_date < self.end_date =>
    \A d \in self.start_date .. self.end_date : Cardinality(ChunksHolding(d)) = 1

----------------------------------------------------------------------------
(* C34 *)

\* C34: in both loops every closed trade has an exit bar strictly later than
\* its entry bar: the trade that a step closes on the current row was entered
\* on an earlier row, so no exit is evaluated on the bar of the entry.
C34_ExitAfterEntry ==
  [][ExitStep =>
       /\ Closed.ExitTime = Some(row'.Date)
       /\ Earlier(Closed.EntryTime, row'.Date)
       /\ Closed.EntryTime # row'.Date]_vars

\* a trade closed on the row that follows its entry row, in each loop
C34_Witness ==
  /\ trade_log # <<>> /\ Last(trade_log).ExitTime = Some(row.Date)
  /\ \/ prog = T /\ Last(trade_log).bars_in_trade = Some(1)
     \/ prog = E /\ FollowsE(Last(trade_log).EntryTime, row.Date)

----------------------------------------------------------------------------
(* C33 *)

\* C33: in backtest_strategy no position is carried into the next calendar
\* day: while a position is open, the row read last is of the day on which
\* the position was opened.
C33_FlatOvernight ==
  prog = T /\ position # 0 => Last(trade_log).EntryTime.day = row.Date.day

----------------------------------------------------------------------------
(* C32 *)
MaxDrawdownReported ==
  IF prog = "10.py" THEN Val(ReturnValue(result)).max_dd
  ELSE ReturnValue(result).Max_Drawdown

\* C32: the reported maximum drawdown is never positive, and it is strictly
\* negative when the first closed trade of the ledger is a loss.
C32_MaxDrawdown ==
  MetricsOfE \/ MetricsOfT =>
    /\ LeQ(MaxDrawdownReported, Num(0))
    /\ df.PnL[1] < 0 => LtQ(MaxDrawdownReported, Num(0))

----------------------------------------------------------------------------
(* TradingBot (src/trading_bot/bot/trading_bot.py) on one symbol.

   self   tick_prices        the ticks kept for the bar that is forming, each
                             with its price and the minute of its arrival
          historical_prices  the close of every bar formed so far
          heap               every Position object constructed so far; a
                             position is referred to by its place in heap, so
                             that a coroutine that holds a position keeps the
                             object after the manager has dropped it
          open_positions     PositionManager.open_positions, symbol -> place
          risk_manager       the RiskManager
   pool   the coroutines on the event loop: the on_tick callbacks the broker
          has scheduled (flattrade.py 196-198) and the loop of run (lines
          46-51), each with the place where it is suspended and its local
          variables.  A coroutine is suspended only where an await leaves the
          event loop: in place_order (flattrade.py 151: run_in_executor) and
          in send_message (telegram_handler.py 37).  log_trade has no await
          inside and runs on.
   call   the calls on the broker in order: place_order with its arguments
          and, once it returned, its result; log_trade with its arguments
   locals index, the number of ticks delivered so far
   prog   "TradingBot.run" with the live broker, "BacktestEngine.run" when the
          ticks are replayed one after the other into one awaited on_tick
          (trading_bot/backtest/engine.py 77-80) on the SimulatedBroker, which
          accepts every order.
   Prices are whole rupees; the quantities, stops and targets of the chosen
   prices are whole numbers. *)

bot_config ==
  [symbol |-> "NIFTY",
   trading |-> [max_concurrent_positions |-> 1, position_size_inr |-> 60,
                stop_loss_pct |-> 50, profit_target_pct |-> 50],
   strategy |-> [short_ma_period |-> 1, long_ma_period |-> 2]]

\* 'lp' of a tick
TickPrices == {10, 20, 30}

Coroutines == {"on_tick_1", "on_tick_2", "run"}

Done == [pc |-> "done"]

\* a state of the bot while a coroutine runs: the object, the calls on the
\* broker, and the coroutine
Running(s, c, t) == [self |-> s, call |-> c, task |-> t]

\* ta.sma(prices, length).iloc[-1], as the sum of the last length closes
\* (the mean times length); on_bar has checked that there are that many
SumLast(prices, length) ==
  SumInt(SubSeq(prices, Len(prices) - length + 1, Len(prices)))

\* lines 93-94, 97, 100: short_ma > long_ma, short_ma < long_ma
ShortAboveLong(prices) ==
  SumLast(prices, bot_config.strategy.short_ma_period) * bot_config.strategy.long_ma_period
    > SumLast(prices, bot_config.strategy.long_ma_period) * bot_config.strategy.short_ma_period

ShortBelowLong(prices) ==
  SumLast(prices, bot_config.strategy.short_ma_period) * bot_config.strategy.long_ma_period
    < SumLast(prices, bot_config.strategy.long_ma_period) * bot_config.strategy.short_ma_period

\* position_manager.py 10-18
BotPosition(symbol, side, price, q, stop_loss_price, profit_target_price) ==
  [symbol |-> symbol, side |-> side, entry_price |-> price, quantity |-> q,
   stop_loss_price |-> stop_loss_price,
   profit_target_price |-> profit_target_price, pnl |-> 0]

\* position_manager.py 34-41, with the object put on the heap
AddToManager(s, p) ==
  IF p.symbol \in DOMAIN s.open_positions THEN s
  ELSE [s EXCEPT !.heap = Append(@, p),
                 !.open_positions = PutKey(@, p.symbol, Len(s.heap) + 1)]

\* position_manager.py 43-49
RemoveFromManager(s, symbol) ==
  IF symbol \in DOMAIN s.open_positions
  THEN [s EXCEPT !.open_positions = DelKey(@, symbol)]
  ELSE s

\* position_manager.py 51-53: the place of the position, None without one
PositionOf(s, symbol) ==
  IF symbol \in DOMAIN s.open_positions THEN Some(s.open_positions[symbol]) ELSE None

\* the call of broker.place_order (lines 112-116, 149-153), result pending
OrderCall(transaction_type, q, price) ==
  [op |-> "place_order", symbol |-> bot_config.symbol, quantity |-> q,
   price |-> price, transaction_type |-> transaction_type, result |-> None]

AcceptedAlways(order_id) == TRUE

\* line 118, line 155: if order_id
Accepted(order_id) == order_id # None

\* what follows close_position in its caller: nothing in on_tick (line 101)
\* and after the only symbol of check_positions_for_sl_tp (line 139); lines
\* 169-172 in handle_market_close
AfterClose(s, c, caller) ==
  IF caller = "handle_market_close"
  THEN Running([s EXCEPT !.risk_manager = reset(@), !.tick_prices = <<>>,
                         !.historical_prices = <<>>], c, Done)
  ELSE Running(s, c, Done)

\* lines 141-153: close_position up to the await of place_order
ClosePosition(s, c, symbol, reason, caller) ==
  LET pos == PositionOf(s, symbol)
  IN IF pos = None THEN AfterClose(s, c, caller)
     ELSE LET p == s.heap[Val(pos)]
              current_price == IF s.tick_prices # <<>>
                               THEN Last(s.tick_prices).price ELSE p.entry_price
              side == IF p.side = "BUY" THEN "SELL" ELSE "BUY"
          IN Running(s, Append(c, OrderCall(side, p.quantity, current_price)),
                     [pc |-> "close_position: place_order", caller |-> caller,
                      symbol |-> symbol, reason |-> reason,
                      position |-> Val(pos), current_price |-> current_price,
                      order |-> Len(c) + 1])

\* lines 103-116: open_position up to the await of place_order
OpenPosition(s, c, side, price) ==
  LET q == bot_config.trading.position_size_inr \div price
      stop_loss_price == IF side = "BUY"
                   THEN (price * (100 - bot_config.trading.stop_loss_pct)) \div 100
                   ELSE (price * (100 + bot_config.trading.stop_loss_pct)) \div 100
      profit_target_price == IF side = "BUY"
                       THEN (price * (100 + bot_config.trading.profit_target_pct)) \div 100
                       ELSE (price * (100 - bot_config.trading.profit_target_pct)) \div 100
  IN Running(s, Append(c, OrderCall(side, q, price)),
             [pc |-> "open_position: place_order", side |-> side, price |-> price,
              quantity |-> q, stop_loss |-> stop_loss_price,
              profit_target |-> profit_target_price, order |-> Len(c) + 1])

\* lines 88-101
ExecuteStrategy(s, c, current_price) ==
  LET symbol == bot_config.symbol
      pos == PositionOf(s, symbol)
  IN IF pos = None
     THEN IF /\ ShortAboveLong(s.historical_prices)
             /\ can_open_new_position(s.risk_manager, symbol,
                                      Cardinality(DOMAIN s.open_positions))
          THEN OpenPosition(s, c, "BUY", current_price)
          ELSE Running(s, c, Done)
     ELSE IF s.heap[Val(pos)].side = "BUY" /\ ShortBelowLong(s.historical_prices)
          THEN ClosePosition(s, c, symbol, "MA Crossover Exit", "on_tick")
          ELSE Running(s, c, Done)

\* lines 82-86
OnBar(s, c, current_price) ==
  IF Len(s.historical_prices) < bot_config.strategy.long_ma_period
  THEN Running(s, c, Done)
  ELSE ExecuteStrategy(s, c, current_price)

\* lines 57-80: a tick of price lp that arrives in minute minute.  The ticks
\* kept are of one minute, so the last row of the resampled frame is the bar
\* of the new tick alone and its close is the price of the tick.
OnTickBody(s, c, lp, minute) ==
  LET ticks == Append(s.tick_prices, [price |-> lp, time |-> minute])
  IN IF Len(ticks) > 1 /\ ticks[Len(ticks)].time # ticks[Len(ticks) - 1].time
     THEN LET new_bar == [close |-> lp]
          IN OnBar([s EXCEPT !.historical_prices = Append(@, new_bar.close),
                             !.tick_prices = <<>>], c, new_bar.close)
     ELSE Running([s EXCEPT !.tick_prices = ticks], c, Done)

\* lines 122-139, up to the await of place_order in close_position
CheckPositionsBody(s, c) ==
  IF s.tick_prices = <<>> THEN Running(s, c, Done)
  ELSE LET current_price == Last(s.tick_prices).price
           symbol == bot_config.symbol
       IN IF ~(symbol \in DOMAIN s.open_positions) THEN Running(s, c, Done)
          ELSE LET k == s.open_positions[symbol]
                   p == update_pnl(s.heap[k], current_price)
                   s1 == [s EXCEPT !.heap[k] = p]
                   reason ==
                     IF p.side = "BUY"
                     THEN IF current_price <= p.stop_loss_price THEN Some("Stop-Loss")
                          ELSE IF current_price >= p.profit_target_price
                               THEN Some("Profit-Target") ELSE None
                     ELSE IF current_price >= p.stop_loss_price THEN Some("Stop-Loss")
                          ELSE IF current_price <= p.profit_target_price
                               THEN Some("Profit-Target") ELSE None
               IN IF reason # None
                  THEN ClosePosition(s1, c, symbol, Val(reason), "check_positions_for_sl_tp")
                  ELSE Running(s1, c, Done)

\* lines 164-166, up to the await of send_message
MarketCloseBody(s, c) ==
  IF Cardinality(DOMAIN s.open_positions) > 0
  THEN Running(s, c, [pc |-> "handle_market_close: send_message"])
  ELSE AfterClose(s, c, "handle_market_close")

\* lines 167-172: after the message, the symbols that are open now
MarketCloseLoop(s, c) ==
  IF bot_config.symbol \in DOMAIN s.open_positions
  THEN ClosePosition(s, c, bot_config.symbol, "EOD", "handle_market_close")
  ELSE AfterClose(s, c, "handle_market_close")

\* lines 118-120: open_position after place_order returned order_id
OpenPositionResumed(s, c, t, order_id) ==
  LET c1 == [c EXCEPT ![t.order].result = Returned(order_id)]
  IN IF Accepted(order_id)
     THEN Running(AddToManager(s, BotPosition(bot_config.symbol, t.side, t.price,
                                              t.quantity, t.stop_loss, t.profit_target)),
                  c1, [pc |-> "open_position: send_message"])
     ELSE Running(s, c1, Done)

\* lines 155-157: close_position after place_order returned order_id
ClosePositionResumed(s, c, t, order_id) ==
  LET c1 == [c EXCEPT ![t.order].result = Returned(order_id)]
  IN IF Accepted(order_id)
     THEN Running([s EXCEPT !.heap[t.position] = update_pnl(@, t.current_price)],
                  c1, [t EXCEPT !.pc = "close_position: send_message"])
     ELSE AfterClose(s, c1, t.caller)

\* the call of broker.log_trade, line 158
LogTradeCall(p, current_price, reason) ==
  [op |-> "log_trade", symbol |-> p.symbol, side |-> p.side,
   entry_price |-> p.entry_price, exit_price |-> current_price,
   pnl |-> p.pnl, reason |-> reason]

\* lines 158-160: close_position after send_message
ClosePositionLogged(s, c, t) ==
  AfterClose([RemoveFromManager(s, t.symbol) EXCEPT
                 !.risk_manager = add_closed_position(@, t.symbol)],
             Append(c, LogTradeCall(s.heap[t.position], t.current_price, t.reason)),
             t.caller)

\* lines 17-25
InitBot ==
  /\ prog \in {"TradingBot.run", "BacktestEngine.run"} /\ pc = "running"
  /\ ComponentIdle
  /\ self = [tick_prices |-> <<>>, historical_prices |-> <<>>, heap |-> <<>>,
             open_positions |-> <<>>,
             risk_manager |->
               [max_concurrent_positions |-> bot_config.trading.max_concurrent_positions,
                closed_today |-> {}]]
  /\ call = <<>> /\ result = None
  /\ pool = [t \in Coroutines |-> Done]
  /\ locals = [index |-> 0]

\* the coroutine t has run up to its next await, or to its end
RanTo(t, m) ==
  /\ Len(m.call) <= MaxOrders
  /\ self' = m.self /\ call' = m.call
  /\ pool' = [pool EXCEPT ![t] = m.task]

\* the callback slot the next on_tick takes
FreeSlot ==
  IF pool["on_tick_1"] = Done THEN Some("on_tick_1")
  ELSE IF pool["on_tick_2"] = Done THEN Some("on_tick_2") ELSE None

\* a tick arrives: flattrade.py 196-198 schedules on_tick on the loop, which
\* runs it to its first await; engine.py 78-80 awaits one on_tick at a time.
\* The minute of the tick is counted from the minute of the ticks kept.
OnTick ==
  /\ prog \in {"TradingBot.run", "BacktestEngine.run"} /\ pc = "running"
  /\ locals.index < MaxTicks
  /\ FreeSlot # None
  /\ prog = "BacktestEngine.run" => \A t \in Coroutines : pool[t] = Done
  /\ \E lp \in TickPrices, minute \in {0, 1} :
       RanTo(Val(FreeSlot), OnTickBody(self, call, lp, minute))
  /\ locals' = [locals EXCEPT !.index = @ + 1]
  /\ UNCHANGED <<pc, result>> /\ ComponentUnchanged

\* what place_order returns for the call at place k: the live broker an
\* order id or None (flattrade.py 159-164), the SimulatedBroker always an
\* order id (simulated_broker.py 27-29)
OrderIds(k) ==
  IF prog = "BacktestEngine.run" THEN {Some(k)} ELSE {None, Some(k)}

\* place_order returns to the coroutine that awaits it
OrderReturns ==
  /\ prog \in {"TradingBot.run", "BacktestEngine.run"}
  /\ \E t \in Coroutines :
       \/ /\ pool[t].pc = "open_position: place_order"
          /\ \E order_id \in OrderIds(pool[t].order) :
               RanTo(t, OpenPositionResumed(self, call, pool[t], order_id))
       \/ /\ pool[t].pc = "close_position: place_order"
          /\ \E order_id \in OrderIds(pool[t].order) :
               RanTo(t, ClosePositionResumed(self, call, pool[t], order_id))
  /\ UNCHANGED <<pc, result, locals>> /\ ComponentUnchanged

\* send_message returns to the coroutine that awaits it
MessageSent ==
  /\ prog \in {"TradingBot.run", "BacktestEngine.run"}
  /\ \E t \in Coroutines :
       \/ /\ pool[t].pc = "open_position: send_message"
          /\ RanTo(t, Running(self, call, Done))
       \/ /\ pool[t].pc = "close_position: send_message"
          /\ RanTo(t, ClosePositionLogged(self, call, pool[t]))
       \/ /\ pool[t].pc = "handle_market_close: send_message"
          /\ RanTo(t, MarketCloseLoop(self, call))
  /\ UNCHANGED <<pc, result, locals>> /\ ComponentUnchanged

\* lines 46-49: the loop of run calls check_positions_for_sl_tp while the
\* market is open
CheckPositions ==
  /\ prog = "TradingBot.run" /\ pool["run"] = Done
  /\ RanTo("run", CheckPositionsBody(self, call))
  /\ UNCHANGED <<pc, result, locals>> /\ ComponentUnchanged

\* lines 50-51: and handle_market_close when it is not
MarketClose ==
  /\ prog = "TradingBot.run" /\ pool["run"] = Done
  /\ RanTo("run", MarketCloseBody(self, call))
  /\ UNCHANGED <<pc, result, locals>> /\ ComponentUnchanged

NextBot == OnTick \/ OrderReturns \/ MessageSent \/ CheckPositions \/ MarketClose

SpecBot == InitBot /\ [][NextBot]_vars

----------------------------------------------------------------------------
(* C35 - C38 *)
PlaceOrders(c) == {k \in DOMAIN c : c[k].op = "place_order"}

LogTrades(c) == {k \in DOMAIN c : c[k].op = "log_trade"}

\* the orders the broker accepted: place_order returned an order id
AcceptedOrders(c, transaction_type) ==
  {k \in PlaceOrders(c) : /\ c[k].transaction_type = transaction_type
                         /\ c[k].result # None
                         /\ ReturnValue(c[k].result) # None}

\* the step makes one more call on the broker, of the operation op
Calls(op) == Len(call') = Len(call) + 1 /\ Last(call').op = op

\* C35: when the ticks are replayed one after the other, the exit order of a
\* position closed from the bar path carries the close of the bar that
\* triggered the exit, the trade is logged with that exit price, and the
\* logged pnl of the BUY position is (exit price - entry price) * quantity.
C35_BarPathExit ==
  [][prog = "BacktestEngine.run" =>
       /\ Calls("place_order") /\ Last(call').transaction_type = "SELL" =>
            Last(call').price = Last(self'.historical_prices)
       /\ Calls("log_trade") /\ Last(call').reason = "MA Crossover Exit" =>
            /\ Last(call').exit_price = Last(self.historical_prices)
            /\ Last(call').pnl =
                 (Last(self.historical_prices) - Last(call').entry_price)
                   * Last(self.heap).quantity]_vars

\* C36: under any interleaving of the coroutines, the broker accepts at most
\* one exit order and log_trade is called at most once per opened position.
C36_OneExit ==
  prog = "TradingBot.run" =>
    /\ Cardinality(AcceptedOrders(call, "SELL")) <= Len(self.heap)
    /\ Cardinality(LogTrades(call)) <= Len(self.heap)

\* C37: under any interleaving of the on_tick callbacks, the entry orders the
\* broker accepted are never more than the positions the PositionManager has
\* recorded.
C37_EntryTracked ==
  prog = "TradingBot.run" =>
    Cardinality(AcceptedOrders(call, "BUY")) <= Len(self.heap)

\* the coroutine t takes the result of its place_order in this step, and the
\* result is None
Rejected(t) ==
  /\ pool[t].pc \in {"open_position: place_order", "close_position: place_order"}
  /\ pool'[t] # pool[t]
  /\ call'[pool[t].order].result = Returned(None)

\* C38: when place_order returns no order id, no position is added or
\* removed, no position object changes, no trade is logged and no symbol is
\* added to the closed-today set of the RiskManager.
C38_RejectedOrder ==
  [][\A t \in Coroutines :
       Rejected(t) =>
         /\ self'.open_positions = self.open_positions
         /\ self'.heap = self.heap
         /\ LogTrades(call') = LogTrades(call)
         /\ self'.risk_manager.closed_today \subseteq self.risk_manager.closed_today]_vars

\* an entry order and an exit order were rejected, and the position that the
\* exit order was for is still open
C38_Witness ==
  /\ \E k \in PlaceOrders(call) :
       call[k].transaction_type = "BUY" /\ call[k].result = Returned(None)
  /\ \E k \in PlaceOrders(call) :
       call[k].transaction_type = "SELL" /\ call[k].result = Returned(None)
  /\ bot_config.symbol \in DOMAIN self.open_positions
  /\ LogTrades(call) = {}

----------------------------------------------------------------------------
(* The EMA-cross ATR-stop strategy: the backtrader strategy EmaCrossAtrStops
   (src/ema_cross_atr_stops.py) and the loop of the script
   src/strategies/ma_crossover - Copy.py.

   prog   "EmaCrossAtrStops" or "ma_crossover - Copy.py"
   self   the fields of the strategy: the three orders it tracks, each the
          place of the order in the book or None, the two extremes, and
          position, the size the broker holds for it
   pool   the order book of the backtrader broker, every order submitted so
          far in order of submission, each with its execution type, side,
          price and status.  An order is alive while its status is
          "Accepted"; cancel ends it at once, and an order of size 1 that
          executes is "Completed".
   locals the variables of the script's loop (lines 24-33), and i, the
          number of bars handled so far, for both programs
   A bar is handled in one step, as backtrader's run loop does: the broker
   tries the orders alive before the bar against it, the strategy is told
   of the orders and trades that changed, and next runs.  The crossing of
   the two EMAs is an input of the bar.  Prices are whole numbers and the
   ATR is 2 or 4 where it is defined, so that its multiples 2.0, 3.0 and
   1.5 are whole; the script reads NaN as ATR on the rows of the warm-up. *)

atr_multiplier_sl == 2

atr_multiplier_tp == 3

\* atr_multiplier_tsl = 1.5, in halves
atr_multiplier_tsl == 3

TrailLevels == {10, 13, 16}

\* a bar with ema: 1 when ema9 is above ema21 (and crossed up on this bar,
\* for the backtrader strategy), -1 when below (crossed down), 0 otherwise
TrailBars ==
  {b \in [open : TrailLevels, high : TrailLevels, low : TrailLevels,
          close : TrailLevels, ema : {-1, 0, 1}, atr : {NaN, Num(2), Num(4)}] :
     /\ b.low <= b.high
     /\ b.open \in {b.low, b.high} /\ b.close \in {b.low, b.high}}

Alive(o) == o.status = "Accepted"

\* self.buy(...), self.sell(...): a new order at the end of the book
Submit(book, side, exectype, price) ==
  Append(book, [side |-> side, exectype |-> exectype, price |-> price,
                status |-> "Accepted"])

\* self.cancel(order)
Cancel(book, k) ==
  IF Alive(book[k]) THEN [book EXCEPT ![k].status = "Canceled"] ELSE book

\* whether the bar executes the order
Executes(o, b) ==
  CASE o.exectype = "Market" -> TRUE
    [] o.exectype = "Stop" -> IF o.side = "sell" THEN b.low <= o.price
                              ELSE b.high >= o.price
    [] o.exectype = "Limit" -> IF o.side = "sell" THEN b.high >= o.price
                               ELSE b.low <= o.price

\* the price at which it executes: the open for a market order and for a
\* price the bar opens beyond, the price of the order otherwise
ExecutedPrice(o, b) ==
  CASE o.exectype = "Market" -> b.open
    [] o.exectype = "Stop" ->
         IF o.side = "sell" THEN (IF b.open < o.price THEN b.open ELSE o.price)
         ELSE (IF b.open > o.price THEN b.open ELSE o.price)
    [] o.exectype = "Limit" ->
         IF o.side = "sell" THEN (IF b.open > o.price THEN b.open ELSE o.price)
         ELSE (IF b.open < o.price THEN b.open ELSE o.price)

\* the broker on a bar: the orders alive from place k of the book on are
\* tried in order; m holds the book, the size of the position and the trades
\* opened and closed so far on this bar
RECURSIVE BrokerNext(_, _, _)
BrokerNext(m, k, b) ==
  IF k > Len(m.book) THEN m
  ELSE LET o == m.book[k]
       IN IF Alive(o) /\ Executes(o, b)
          THEN LET size == m.size + (IF o.side = "buy" THEN 1 ELSE -1)
                   trade == IF m.size = 0
                            THEN [isopen |-> TRUE, long |-> size > 0,
                                  price |-> ExecutedPrice(o, b)]
                            ELSE [isopen |-> FALSE, long |-> m.size > 0,
                                  price |-> ExecutedPrice(o, b)]
               IN BrokerNext([book |-> [m.book EXCEPT ![k].status = "Completed"],
                              size |-> size,
                              trades |-> Append(m.trades, trade)], k + 1, b)
          ELSE BrokerNext(m, k + 1, b)

\* lines 35-50: an order that is no longer alive is forgotten as entry order
notify_order(s, book) ==
  IF s.entry_order # None /\ ~Alive(book[Val(s.entry_order)])
  THEN [s EXCEPT !.entry_order = None] ELSE s

\* lines 53-78; m holds the strategy and the book
notify_trade(m, trade, b) ==
  LET s == m.self
      atr == Val(b.atr)[1]
  IN IF trade.isopen
     THEN IF trade.long
          THEN LET sl_price == trade.price - atr * atr_multiplier_sl
                   tp_price == trade.price + atr * atr_multiplier_tp
                   book1 == Submit(m.book, "sell", "Stop", sl_price)
                   book2 == Submit(book1, "sell", "Limit", tp_price)
               IN [self |-> [s EXCEPT !.highest_price_since_long_entry = b.high,
                                      !.stop_loss_order = Some(Len(book1)),
                                      !.take_profit_order = Some(Len(book2))],
                   book |-> book2]
          ELSE LET sl_price == trade.price + atr * atr_multiplier_sl
                   tp_price == trade.price - atr * atr_multiplier_tp
                   book1 == Submit(m.book, "buy", "Stop", sl_price)
                   book2 == Submit(book1, "buy", "Limit", tp_price)
               IN [self |-> [s EXCEPT !.lowest_price_since_short_entry = Num(b.low),
                                      !.stop_loss_order = Some(Len(book1)),
                                      !.take_profit_order = Some(Len(book2))],
                   book |-> book2]
     ELSE LET book1 == IF s.stop_loss_order # None
                       THEN Cancel(m.book, Val(s.stop_loss_order)) ELSE m.book
              book2 == IF s.take_profit_order # None
                       THEN Cancel(book1, Val(s.take_profit_order)) ELSE book1
          IN [self |-> s, book |-> book2]

RECURSIVE NotifyTrades(_, _, _)
NotifyTrades(m, trades, b) ==
  IF trades = <<>> THEN m
  ELSE NotifyTrades(notify_trade(m, Head(trades), b), Tail(trades), b)

MoveStopKeepingOld(book, k, side, tsl_price) ==
  Submit(book, side, "Stop", tsl_price)

\* lines 101-102, 110-111: the old stop is cancelled, then the new one is placed
MoveStop(book, k, side, tsl_price) ==
  Submit(Cancel(book, k), side, "Stop", tsl_price)

\* lines 80-112; m holds the strategy and the book
next(m, b) ==
  LET s == m.self
      atr == Val(b.atr)[1]
  IN IF s.entry_order # None THEN m
     ELSE IF s.position = 0
     THEN IF b.ema = 1
          THEN [self |-> [s EXCEPT !.entry_order = Some(Len(m.book) + 1)],
                book |-> Submit(m.book, "buy", "Market", None)]
          ELSE IF b.ema = -1
          THEN [self |-> [s EXCEPT !.entry_order = Some(Len(m.book) + 1)],
                book |-> Submit(m.book, "sell", "Market", None)]
          ELSE m
     ELSE IF s.position > 0
     THEN LET highest == IF b.high > s.highest_price_since_long_entry
                         THEN b.high ELSE s.highest_price_since_long_entry
              tsl_price == highest - (atr * atr_multiplier_tsl) \div 2
              s1 == [s EXCEPT !.highest_price_since_long_entry = highest]
          IN IF /\ s.stop_loss_order # None
                /\ tsl_price > m.book[Val(s.stop_loss_order)].price
             THEN [self |-> [s1 EXCEPT !.stop_loss_order = Some(Len(m.book) + 1)],
                   book |-> MoveStop(m.book, Val(s.stop_loss_order), "sell", tsl_price)]
             ELSE [self |-> s1, book |-> m.book]
     ELSE LET lowest == IF LtQ(Num(b.low), s.lowest_price_since_short_entry)
                        THEN Num(b.low) ELSE s.lowest_price_since_short_entry
              tsl_price == Val(lowest)[1] + (atr * atr_multiplier_tsl) \div 2
              s1 == [s EXCEPT !.lowest_price_since_short_entry = lowest]
          IN IF /\ s.stop_loss_order # None
                /\ tsl_price < m.book[Val(s.stop_loss_order)].price
             THEN [self |-> [s1 EXCEPT !.stop_loss_order = Some(Len(m.book) + 1)],
                   book |-> MoveStop(m.book, Val(s.stop_loss_order), "buy", tsl_price)]
             ELSE [self |-> s1, book |-> m.book]

\* lines 16-28
InitStrategy ==
  [entry_order |-> None, stop_loss_order |-> None, take_profit_order |-> None,
   highest_price_since_long_entry |-> 0, lowest_price_since_short_entry |-> Inf,
   position |-> 0]

\* arithmetic of floats that may be NaN
PlusQ(a, b) == IF a = NaN \/ b = NaN THEN NaN ELSE Some(AddQ(Val(a), Val(b)))

TimesQ(a, n, d) ==
  IF a = NaN THEN NaN ELSE Some(Lowest(<<Val(a)[1] * n, Val(a)[2] * d>>))

\* max(a, b) and min(a, b) of Python: b only when it compares beyond a
PyMax(a, b) == IF GtQ(b, a) THEN b ELSE a

PyMin(a, b) == IF LtQ(b, a) THEN b ELSE a

\* ma_crossover - Copy.py 24-36
InitScript ==
  [position |-> 0, entry_price |-> Num(0), long_sl |-> Num(0), long_tp |-> Num(0),
   short_sl |-> Num(0), short_tp |-> Num(0),
   highest_price_since_long |-> Num(0), lowest_price_since_short |-> Num(0),
   long_trailing_sl |-> Num(0), short_trailing_sl |-> Num(0), signals |-> <<>>, i |-> 0]

\* lines 43-63: the entries
ScriptEntry(l, b) ==
  IF b.ema = 1 /\ l.position <= 0
  THEN [l EXCEPT !.position = 1, !.entry_price = Num(b.close),
                 !.long_sl = PlusQ(Num(b.close), TimesQ(b.atr, -atr_multiplier_sl, 1)),
                 !.long_tp = PlusQ(Num(b.close), TimesQ(b.atr, atr_multiplier_tp, 1)),
                 !.highest_price_since_long = Num(b.high),
                 !.long_trailing_sl =
                    PlusQ(Num(b.close), TimesQ(b.atr, -atr_multiplier_sl, 1)),
                 !.signals = Append(@, "Long Entry")]
  ELSE IF b.ema = -1 /\ l.position >= 0
  THEN [l EXCEPT !.position = -1, !.entry_price = Num(b.close),
                 !.short_sl = PlusQ(Num(b.close), TimesQ(b.atr, atr_multiplier_sl, 1)),
                 !.short_tp = PlusQ(Num(b.close), TimesQ(b.atr, -atr_multiplier_tp, 1)),
                 !.lowest_price_since_short = Num(b.low),
                 !.short_trailing_sl =
                    PlusQ(Num(b.close), TimesQ(b.atr, atr_multiplier_sl, 1)),
                 !.signals = Append(@, "Short Entry")]
  ELSE l

\* line 69: the trailing stop of the long position
LongTrailingSl(long_trailing_sl, potential_trailing_sl) ==
  PyMax(long_trailing_sl, potential_trailing_sl)

\* lines 66-74
ScriptLong(l, b) ==
  IF l.position = 1
  THEN LET highest == PyMax(l.highest_price_since_long, Num(b.high))
           potential_trailing_sl ==
             PlusQ(highest, TimesQ(b.atr, -atr_multiplier_tsl, 2))
           trailing == LongTrailingSl(l.long_trailing_sl, potential_trailing_sl)
           l1 == [l EXCEPT !.highest_price_since_long = highest,
                           !.long_trailing_sl = trailing]
       IN IF LeQ(Num(b.close), trailing) \/ GeQ(Num(b.close), l.long_tp)
          THEN [l1 EXCEPT !.signals = Append(@, "Long Exit"), !.position = 0]
          ELSE l1
  ELSE l

\* lines 77-85
ScriptShort(l, b) ==
  IF l.position = -1
  THEN LET lowest == PyMin(l.lowest_price_since_short, Num(b.low))
           potential_trailing_sl ==
             PlusQ(lowest, TimesQ(b.atr, atr_multiplier_tsl, 2))
           trailing == PyMin(l.short_trailing_sl, potential_trailing_sl)
           l1 == [l EXCEPT !.lowest_price_since_short = lowest,
                           !.short_trailing_sl = trailing]
       IN IF GeQ(Num(b.close), trailing) \/ LeQ(Num(b.close), l.short_tp)
          THEN [l1 EXCEPT !.signals = Append(@, "Short Exit"), !.position = 0]
          ELSE l1
  ELSE l

InitTrail ==
  /\ prog \in {"EmaCrossAtrStops", "ma_crossover - Copy.py"} /\ pc = "running"
  /\ ComponentIdle
  /\ IF prog = "EmaCrossAtrStops"
     THEN self = InitStrategy /\ pool = <<>> /\ locals = [i |-> 0]
     ELSE self = None /\ pool = None /\ locals = InitScript
  /\ call = None /\ result = None

\* one bar of the backtrader run: the broker, the notifications, next.  The
\* indicators of the strategy are defined on every bar next is called on.
StrategyBar ==
  /\ prog = "EmaCrossAtrStops" /\ locals.i < MaxTrailBars
  /\ \E b \in TrailBars :
       /\ b.atr # NaN
       /\ LET filled == BrokerNext([book |-> pool, size |-> self.position,
                                    trades |-> <<>>], 1, b)
              told == NotifyTrades(
                        [self |-> notify_order([self EXCEPT !.position = filled.size],
                                               filled.book),
                         book |-> filled.book], filled.trades, b)
              after == next(told, b)
          IN self' = after.self /\ pool' = after.book
  /\ locals' = [locals EXCEPT !.i = @ + 1]
  /\ UNCHANGED <<pc, call, result>> /\ ComponentUnchanged

\* one pass of the loop of the script, lines 39-85
ScriptRow ==
  /\ prog = "ma_crossover - Copy.py" /\ locals.i < MaxTrailBars
  /\ \E b \in TrailBars :
       locals' = [ScriptShort(ScriptLong(ScriptEntry(locals, b), b), b)
                    EXCEPT !.i = @ + 1]
  /\ UNCHANGED <<pc, self, pool, call, result>> /\ ComponentUnchanged

NextTrail == StrategyBar \/ ScriptRow

SpecTrail == InitTrail /\ [][NextTrail]_vars

----------------------------------------------------------------------------
(* C40 *)
LiveStops(book) ==
  {k \in DOMAIN book : Alive(book[k]) /\ book[k].exectype = "Stop"}

\* the price of the stop order the strategy tracks
StopPrice(s, book) == book[Val(s.stop_loss_order)].price

====
